---- MODULE Spec2Model ----
(***************************************************************************)
(* A model of the EIS forward simulator (src/utils/eis_simulation.py).     *)
(*                                                                         *)
(* Numbers.  The program computes with double-precision floats.  The model *)
(* computes with exact rationals n/d (d > 0), tagged with a kind:          *)
(*   "lin"  the real number n/d                  (CPE ideality factors)    *)
(*   "pos"  the positive real B^(n/d), B > 1     (frequencies, R, Q, sigma)*)
(*   "zero", "neg", "inf", "nan"  the other floats a call can be given or  *)
(*          can compute (0.0, a negative number, +inf, nan)                *)
(* and the logarithm of a float is a rational tagged "fin", or "ninf",     *)
(* "pinf", "nan".  np.log and np.exp (np.log10 and 10 ** y) map between    *)
(* them with IEEE-754 rules for the special values.  The inputs used are   *)
(* powers of ten (B = 10); B is otherwise immaterial, as every function    *)
(* of the program pairs a logarithm with its own inverse.                  *)
(* Rounding of the last bit of a float is not modelled; np.round is.       *)
(*                                                                         *)
(* Complex impedances are kept as terms over the element values, so that   *)
(* an entry of a spectrum records which values it was computed from.       *)
(*                                                                         *)
(* Python indexes from 0, TLA+ sequences from 1: x[idx] of the source is   *)
(* x[idx] of the model with idx shifted by one.                            *)
(***************************************************************************)
EXTENDS Integers, Sequences, FiniteSets, TLC

VARIABLES rng, call, result,
          page, sidebar, session_state, uploaded_file, tmp_files, screen, sys_path

\* The state of the dashboard: the page the sidebar radio selects, the values
\* of the simulator's sidebar controls, st.session_state, the file in the
\* training page's uploader, the temporary files on disk, what the last
\* run of the script put on the screen and the directories the process
\* searches for modules.
app == <<page, sidebar, session_state, uploaded_file, tmp_files, screen, sys_path>>

vars == <<rng, call, result, page, sidebar, session_state, uploaded_file, tmp_files, screen, sys_path>>

(***************************************************************************)
(* Bounds of the model (not program constants).                            *)
(***************************************************************************)
MaxSize == 2
MaxPoints == 3
RngStates == 16

(***************************************************************************)
(* Floats and their logarithms.                                            *)
(***************************************************************************)
Pos(e) == [k |-> "pos", n |-> e, d |-> 1]
Zero == [k |-> "zero", n |-> 0, d |-> 1]
Neg == [k |-> "neg", n |-> 0, d |-> 1]
Inf == [k |-> "inf", n |-> 0, d |-> 1]
NaN == [k |-> "nan", n |-> 0, d |-> 1]
Lin(n, d) == [k |-> "lin", n |-> n, d |-> d]

\* Exact arithmetic on "lin" values, results in lowest terms.
RECURSIVE GCD(_, _)
GCD(a, b) == IF b = 0 THEN a ELSE GCD(b, a % b)
Abs(a) == IF a < 0 THEN -a ELSE a
Reduced(n, d) == LET g == GCD(Abs(n), d) IN Lin(n \div g, d \div g)
AddR(x, y) == Reduced(x.n * y.d + y.n * x.d, x.d * y.d)
SubR(x, y) == Reduced(x.n * y.d - y.n * x.d, x.d * y.d)
MulR(x, p, q) == Reduced(x.n * p, x.d * q)

Fin(n, d) == [k |-> "fin", n |-> n, d |-> d]
NInf == [k |-> "ninf", n |-> 0, d |-> 1]
PInf == [k |-> "pinf", n |-> 0, d |-> 1]
LNaN == [k |-> "nan", n |-> 0, d |-> 1]

\* The distance of a float from the float nearest to the number it is
\* written as, in units of the last place: 0 unless a computation rounded
\* away from it (see log_rand).
Ulp(x) == IF "ulp" \in DOMAIN x THEN x.ulp ELSE 0

\* Comparisons of two values of the same kind ("pos": B^x is increasing in x).
EqVal(x, y) ==
    \E vx \in {x}, vy \in {y} :
       vx.k = vy.k /\ vx.n * vy.d = vy.n * vx.d /\ Ulp(vx) = Ulp(vy)
LeVal(x, y) ==
    \E vx \in {x}, vy \in {y} :
       /\ vx.k = vy.k
       /\ \/ vx.n * vy.d < vy.n * vx.d
          \/ (vx.n * vy.d = vy.n * vx.d /\ Ulp(vx) <= Ulp(vy))
LtVal(x, y) ==
    \E vx \in {x}, vy \in {y} :
       /\ vx.k = vy.k
       /\ \/ vx.n * vy.d < vy.n * vx.d
          \/ (vx.n * vy.d = vy.n * vx.d /\ Ulp(vx) < Ulp(vy))

\* np.log, np.log10: log(0) = -inf, log(x < 0) = nan (a warning, no exception).
Log(x) ==
    CASE x.k = "pos" -> Fin(x.n, x.d)
      [] x.k = "zero" -> NInf
      [] x.k = "inf" -> PInf
      [] OTHER -> LNaN

\* np.exp, 10 ** y: exp(-inf) = 0, exp(+inf) = inf, exp(nan) = nan.
Exp(y) ==
    CASE y.k = "fin" -> [k |-> "pos", n |-> y.n, d |-> y.d]
      [] y.k = "ninf" -> Zero
      [] y.k = "pinf" -> Inf
      [] OTHER -> NaN

\* IEEE-754 negation, addition, subtraction on logarithms.
NegL(y) ==
    CASE y.k = "fin" -> Fin(-y.n, y.d)
      [] y.k = "ninf" -> PInf
      [] y.k = "pinf" -> NInf
      [] OTHER -> LNaN

AddL(x, y) ==
    CASE x.k = "nan" \/ y.k = "nan" -> LNaN
      [] x.k = "fin" /\ y.k = "fin" -> Fin(x.n * y.d + y.n * x.d, x.d * y.d)
      [] x.k = "fin" -> y
      [] y.k = "fin" -> x
      [] x.k = y.k -> x
      [] OTHER -> LNaN

SubL(x, y) == AddL(x, NegL(y))

\* y * (p / q) for a rational p / q >= 0: inf * 0 = nan.
MulL(y, p, q) ==
    CASE y.k = "nan" -> LNaN
      [] y.k = "fin" -> Fin(y.n * p, y.d * q)
      [] p = 0 -> LNaN
      [] OTHER -> y

(***************************************************************************)
(* np.random: one process-global generator.  Its state advances by one     *)
(* step per drawn number and a draw is a function of the state; rand()     *)
(* returns a float in [0, 1).  The generator is modelled as a full-period  *)
(* congruential generator over RngStates states, started in any state      *)
(* (the program never seeds it); the draw in state s is s / RngStates.     *)
(***************************************************************************)
\* A generator state: x, the state proper, and drawn, the numbers drawn since
\* the current call began.
Gen(x) == [x |-> x, drawn |-> 0]

RngNext(s) == [x |-> (5 * s.x + 3) % RngStates, drawn |-> s.drawn + 1]

RECURSIVE RngSkip(_, _)
RngSkip(s, j) == IF j <= 0 THEN s ELSE RngSkip(RngNext(s), j - 1)

\* np.random.rand(size_number) in state s: the numerators of the draws.
rand(size_number, s) == [j \in 1..size_number |-> RngSkip(s, j - 1).x]

(***************************************************************************)
(* Frequency grid.                                                         *)
(***************************************************************************)
\* 2 * np.pi * f, kept as a term over f.
TwoPiTimes(f) == [op |-> "2*pi*", args |-> <<f>>]

\* np.linspace(start, stop, num, endpoint=True) on logarithms:
\* y[i] = i * step + start with step = (stop - start) / (num - 1), and the
\* last entry set to stop when num > 1; num = 1 gives [0 * delta + start],
\* num = 0 the empty array.
linspace(start, stop, num) ==
    LET delta == SubL(stop, start)
        div == num - 1
        y(i) == IF div > 0
                THEN AddL(MulL(delta, i, div), start)
                ELSE AddL(MulL(delta, i, 1), start)
    IN  [i \in 1..num |-> IF num > 1 /\ i = num THEN stop ELSE y(i - 1)]

\* np.logspace raises ValueError for a negative number of samples; every
\* other argument gives an array (10 ** linspace).
\* F_range with the grid generated with endpoint=False.
F_range_open(initial_frequency, last_frequency, number_of_point) ==
    IF number_of_point < 0
    THEN [status |-> "ValueError", angular_frequency |-> <<>>, frequency_Hz |-> <<>>]
    ELSE LET y == linspace(Log(initial_frequency), Log(last_frequency), number_of_point + 1)
             frequency_Hz == [i \in 1..number_of_point |-> Exp(y[i])]
         IN  [status |-> "ok",
              angular_frequency |-> [i \in 1..number_of_point |-> TwoPiTimes(frequency_Hz[i])],
              frequency_Hz |-> frequency_Hz]

F_range(initial_frequency, last_frequency, number_of_point) ==
    IF number_of_point < 0
    THEN [status |-> "ValueError", angular_frequency |-> <<>>, frequency_Hz |-> <<>>]
    ELSE LET y == linspace(Log(initial_frequency), Log(last_frequency), number_of_point)
             frequency_Hz == [i \in 1..number_of_point |-> Exp(y[i])]
         IN  [status |-> "ok",
              angular_frequency |-> [i \in 1..number_of_point |-> TwoPiTimes(frequency_Hz[i])],
              frequency_Hz |-> frequency_Hz]

(***************************************************************************)
(* Random generators.                                                      *)
(***************************************************************************)
\* np.exp(np.log(x)) in float64 for x = 10^e: the two roundings do not
\* cancel, and the result is this many units of the last place away from x
\* (np.exp(np.log(100.0)) is 100.00000000000004, three above 100.0).
ExpLogUlps ==
    [e \in (-7)..5 |-> <<-4, 2, -2, 6, 1, 2, 1, 0, 1, 3, -2, 5, 1>>[e + 8]]

\* exp(log(lo) + (log(hi) - log(lo)) * rand(n)), drawn in generator state s.
\* A draw of 0.0 and a range of one point leave log(lo) as the exponent:
\* the value is np.exp(np.log(lo)), which is not lo.  Every other value is
\* strictly between the bounds.
log_rand(initial_gen, last_gen, size_number, s) ==
    LET initial_v == Log(initial_gen)
        last_v == Log(last_gen)
        u == rand(size_number, s)
    IN  [j \in 1..size_number |->
            IF /\ initial_gen.k = "pos" /\ last_gen.k = "pos"
               /\ u[j] = 0 \/ last_gen.n * initial_gen.d = initial_gen.n * last_gen.d
               /\ initial_gen.d = 1
               /\ initial_gen.n \in ((-7)..5) \ {0}
            THEN [k |-> "pos", n |-> initial_gen.n, d |-> 1,
                  ulp |-> ExpLogUlps[initial_gen.n]]
            ELSE Exp(AddL(initial_v, MulL(SubL(last_v, initial_v), u[j], RngStates)))]

\* lin_rand drawing from twice the range: 2 * (lo + (hi - lo) * rand(n)).
lin_rand_doubled(initial_gen, last_gen, size_number, s) ==
    LET u == rand(size_number, s)
    IN  [j \in 1..size_number |->
            MulR(AddR(initial_gen, MulR(SubR(last_gen, initial_gen), u[j], RngStates)), 2, 1)]

\* lo + (hi - lo) * rand(n) on "lin" values, drawn in generator state s.
lin_rand(initial_gen, last_gen, size_number, s) ==
    LET u == rand(size_number, s)
    IN  [j \in 1..size_number |->
            AddR(initial_gen, MulR(SubR(last_gen, initial_gen), u[j], RngStates))]

\* The integer nearest to p / q (q > 0), ties to the even one (np.rint).
RoundHalfEven(p, q) ==
    LET f == p \div q
        r == p % q
    IN  IF 2 * r < q THEN f
        ELSE IF 2 * r > q THEN f + 1
        ELSE IF f % 2 = 0 THEN f ELSE f + 1

\* 10 ^ decimals.
RECURSIVE Pow10(_)
Pow10(decimals) == IF decimals <= 0 THEN 1 ELSE 10 * Pow10(decimals - 1)

\* np.round(x, decimals) on an array of "lin" values.
round(x, decimals) ==
    [j \in 1..Len(x) |->
        Lin(RoundHalfEven(x[j].n * Pow10(decimals), x[j].d), Pow10(decimals))]

(***************************************************************************)
(* Element impedances and complex arithmetic, as terms.                    *)
(***************************************************************************)
Z_R(resistance) == resistance

\* 1 / (Q * (w * 1j) ** alpha)
Z_Q(non_ideal_capacitance, ideality_factor, angular_frequency) ==
    [op |-> "Z_Q", args |-> <<non_ideal_capacitance, ideality_factor, angular_frequency>>]

\* (sigma * sqrt(2)) / sqrt(1j * w)
Z_W(sigma, angular_frequency) ==
    [op |-> "Z_W", args |-> <<sigma, angular_frequency>>]

\* a + b and 1 / a on complex numbers.
CAdd(a, b) == [op |-> "+", args |-> <<a, b>>]
CInv(a) == [op |-> "1/", args |-> <<a>>]

\* The same, elementwise on arrays of one shape (numpy broadcasting).
MAdd(A, B) == [i \in DOMAIN A |-> [j \in DOMAIN A[i] |-> CAdd(A[i][j], B[i][j])]]
MInv(A) == [i \in DOMAIN A |-> [j \in DOMAIN A[i] |-> CInv(A[i][j])]]

genZR(size_number, number_of_point, resistance) ==
    [idx \in 1..size_number |-> [idx2 \in 1..number_of_point |-> Z_R(resistance[idx])]]

genZQ(size_number, number_of_point, non_ideal_capacitance, ideality_factor, angular_frequency) ==
    [idx \in 1..size_number |-> [idx2 \in 1..number_of_point |->
        Z_Q(non_ideal_capacitance[idx], ideality_factor[idx], angular_frequency[idx2])]]

genZW(size_number, number_of_point, sigma, angular_frequency) ==
    [idx \in 1..size_number |-> [idx2 \in 1..number_of_point |->
        Z_W(sigma[idx], angular_frequency[idx2])]]

(***************************************************************************)
(* Circuit simulations.  Each takes the generator state s at the call and  *)
(* returns the spectra, the parameter matrix and the generator state it    *)
(* leaves behind.                                                          *)
(***************************************************************************)
CIRCUIT_INFO ==
    [c \in 1..5 |->
        CASE c = 1 -> [params |-> <<"R1", "R2", "a1", "Q1">>]
          [] c = 2 -> [params |-> <<"R1", "R2", "R3", "a1", "Q1", "a2", "Q2">>]
          [] c = 3 -> [params |-> <<"R1", "R2", "a1", "Q1", "sigma">>]
          [] c = 4 -> [params |-> <<"R1", "R2", "R3", "a1", "Q1", "a2", "Q2", "sigma">>]
          [] c = 5 -> [params |-> <<"R1", "R2", "R3", "a1", "Q1", "a2", "Q2", "sigma">>]]

\* The number of decimals the ideality factors are rounded to.
AlphaDecimals == 3

Returned(Zsum, Zparam, s, el) ==
    [status |-> "ok", Zsum |-> Zsum, Zparam |-> Zparam, rng |-> s, elements |-> el]

\* _sim_cir1 with Q1 left out of the appended row.
_sim_cir1_short_row(size_number, number_of_point, angular_frequency, resistance_range, alpha_range, q_range, s) ==
    LET n == size_number
        R1 == log_rand(resistance_range[1], resistance_range[2], n, s)
        Zr1 == genZR(n, number_of_point, R1)
        R2 == log_rand(resistance_range[1], resistance_range[2], n, RngSkip(s, n))
        Zr2 == genZR(n, number_of_point, R2)
        ideality_factor1 == round(lin_rand(alpha_range[1], alpha_range[2], n, RngSkip(s, 2 * n)), AlphaDecimals)
        Q1 == log_rand(q_range[1], q_range[2], n, RngSkip(s, 3 * n))
        Zq1 == genZQ(n, number_of_point, Q1, ideality_factor1, angular_frequency)
        Zsum == MAdd(Zr1, MInv(MAdd(MInv(Zr2), MInv(Zq1))))
        Zparam == [idx \in 1..n |-> <<R1[idx], R2[idx], ideality_factor1[idx]>>]
    IN  Returned(Zsum, Zparam, RngSkip(s, 4 * n),
                 [R1 |-> R1, R2 |-> R2, a1 |-> ideality_factor1, Q1 |-> Q1])

_sim_cir1(size_number, number_of_point, angular_frequency, resistance_range, alpha_range, q_range, s) ==
    LET n == size_number
        R1 == log_rand(resistance_range[1], resistance_range[2], n, s)
        Zr1 == genZR(n, number_of_point, R1)
        R2 == log_rand(resistance_range[1], resistance_range[2], n, RngSkip(s, n))
        Zr2 == genZR(n, number_of_point, R2)
        ideality_factor1 == round(lin_rand(alpha_range[1], alpha_range[2], n, RngSkip(s, 2 * n)), AlphaDecimals)
        Q1 == log_rand(q_range[1], q_range[2], n, RngSkip(s, 3 * n))
        Zq1 == genZQ(n, number_of_point, Q1, ideality_factor1, angular_frequency)
        Zsum == MAdd(Zr1, MInv(MAdd(MInv(Zr2), MInv(Zq1))))
        Zparam == [idx \in 1..n |-> <<R1[idx], R2[idx], ideality_factor1[idx], Q1[idx]>>]
    IN  Returned(Zsum, Zparam, RngSkip(s, 4 * n),
                 [R1 |-> R1, R2 |-> R2, a1 |-> ideality_factor1, Q1 |-> Q1])

\* _sim_cir2 with the second CPE evaluated with its own ideality factor.
_sim_cir2_own_alpha(size_number, number_of_point, angular_frequency, resistance_range, alpha_range, q_range, s) ==
    LET n == size_number
        R1 == log_rand(resistance_range[1], resistance_range[2], n, s)
        Zr1 == genZR(n, number_of_point, R1)
        R2 == log_rand(resistance_range[1], resistance_range[2], n, RngSkip(s, n))
        Zr2 == genZR(n, number_of_point, R2)
        ideality_factor1 == round(lin_rand(alpha_range[1], alpha_range[2], n, RngSkip(s, 2 * n)), AlphaDecimals)
        Q1 == log_rand(q_range[1], q_range[2], n, RngSkip(s, 3 * n))
        Zq1 == genZQ(n, number_of_point, Q1, ideality_factor1, angular_frequency)
        R3 == log_rand(resistance_range[1], resistance_range[2], n, RngSkip(s, 4 * n))
        Zr3 == genZR(n, number_of_point, R3)
        ideality_factor2 == round(lin_rand(alpha_range[1], alpha_range[2], n, RngSkip(s, 5 * n)), AlphaDecimals)
        Q2 == log_rand(q_range[1], q_range[2], n, RngSkip(s, 6 * n))
        Zq2 == genZQ(n, number_of_point, Q2, ideality_factor2, angular_frequency)
        Zsum == MAdd(MAdd(Zr1, MInv(MAdd(MInv(Zr2), MInv(Zq1)))),
                     MInv(MAdd(MInv(Zr3), MInv(Zq2))))
        Zparam == [idx \in 1..n |->
            <<R1[idx], R2[idx], R3[idx], ideality_factor1[idx], Q1[idx], ideality_factor2[idx], Q2[idx]>>]
    IN  Returned(Zsum, Zparam, RngSkip(s, 7 * n),
                 [R1 |-> R1, R2 |-> R2, R3 |-> R3, a1 |-> ideality_factor1, Q1 |-> Q1,
                  a2 |-> ideality_factor2, Q2 |-> Q2])

_sim_cir2(size_number, number_of_point, angular_frequency, resistance_range, alpha_range, q_range, s) ==
    LET n == size_number
        R1 == log_rand(resistance_range[1], resistance_range[2], n, s)
        Zr1 == genZR(n, number_of_point, R1)
        R2 == log_rand(resistance_range[1], resistance_range[2], n, RngSkip(s, n))
        Zr2 == genZR(n, number_of_point, R2)
        ideality_factor1 == round(lin_rand(alpha_range[1], alpha_range[2], n, RngSkip(s, 2 * n)), AlphaDecimals)
        Q1 == log_rand(q_range[1], q_range[2], n, RngSkip(s, 3 * n))
        Zq1 == genZQ(n, number_of_point, Q1, ideality_factor1, angular_frequency)
        R3 == log_rand(resistance_range[1], resistance_range[2], n, RngSkip(s, 4 * n))
        Zr3 == genZR(n, number_of_point, R3)
        ideality_factor2 == round(lin_rand(alpha_range[1], alpha_range[2], n, RngSkip(s, 5 * n)), AlphaDecimals)
        Q2 == log_rand(q_range[1], q_range[2], n, RngSkip(s, 6 * n))
        Zq2 == genZQ(n, number_of_point, Q2, ideality_factor1, angular_frequency)
        Zsum == MAdd(MAdd(Zr1, MInv(MAdd(MInv(Zr2), MInv(Zq1)))),
                     MInv(MAdd(MInv(Zr3), MInv(Zq2))))
        Zparam == [idx \in 1..n |->
            <<R1[idx], R2[idx], R3[idx], ideality_factor1[idx], Q1[idx], ideality_factor2[idx], Q2[idx]>>]
    IN  Returned(Zsum, Zparam, RngSkip(s, 7 * n),
                 [R1 |-> R1, R2 |-> R2, R3 |-> R3, a1 |-> ideality_factor1, Q1 |-> Q1,
                  a2 |-> ideality_factor2, Q2 |-> Q2])

\* _sim_cir3 with the row appended in the order the elements were drawn.
_sim_cir3_draw_order(size_number, number_of_point, angular_frequency, resistance_range, alpha_range, q_range, sigma_range, s) ==
    LET n == size_number
        R1 == log_rand(resistance_range[1], resistance_range[2], n, s)
        Zr1 == genZR(n, number_of_point, R1)
        ideality_factor1 == round(lin_rand(alpha_range[1], alpha_range[2], n, RngSkip(s, n)), AlphaDecimals)
        Q1 == log_rand(q_range[1], q_range[2], n, RngSkip(s, 2 * n))
        Zq1 == genZQ(n, number_of_point, Q1, ideality_factor1, angular_frequency)
        R2 == log_rand(resistance_range[1], resistance_range[2], n, RngSkip(s, 3 * n))
        Zr2 == genZR(n, number_of_point, R2)
        sigma == log_rand(sigma_range[1], sigma_range[2], n, RngSkip(s, 4 * n))
        Zw == genZW(n, number_of_point, sigma, angular_frequency)
        Zsum == MAdd(Zr1, MInv(MAdd(MInv(Zq1), MInv(MAdd(Zr2, Zw)))))
        Zparam == [idx \in 1..n |->
            <<R1[idx], ideality_factor1[idx], Q1[idx], R2[idx], sigma[idx]>>]
    IN  Returned(Zsum, Zparam, RngSkip(s, 5 * n),
                 [R1 |-> R1, R2 |-> R2, a1 |-> ideality_factor1, Q1 |-> Q1, sigma |-> sigma])

_sim_cir3(size_number, number_of_point, angular_frequency, resistance_range, alpha_range, q_range, sigma_range, s) ==
    LET n == size_number
        R1 == log_rand(resistance_range[1], resistance_range[2], n, s)
        Zr1 == genZR(n, number_of_point, R1)
        ideality_factor1 == round(lin_rand(alpha_range[1], alpha_range[2], n, RngSkip(s, n)), AlphaDecimals)
        Q1 == log_rand(q_range[1], q_range[2], n, RngSkip(s, 2 * n))
        Zq1 == genZQ(n, number_of_point, Q1, ideality_factor1, angular_frequency)
        R2 == log_rand(resistance_range[1], resistance_range[2], n, RngSkip(s, 3 * n))
        Zr2 == genZR(n, number_of_point, R2)
        sigma == log_rand(sigma_range[1], sigma_range[2], n, RngSkip(s, 4 * n))
        Zw == genZW(n, number_of_point, sigma, angular_frequency)
        Zsum == MAdd(Zr1, MInv(MAdd(MInv(Zq1), MInv(MAdd(Zr2, Zw)))))
        Zparam == [idx \in 1..n |->
            <<R1[idx], R2[idx], ideality_factor1[idx], Q1[idx], sigma[idx]>>]
    IN  Returned(Zsum, Zparam, RngSkip(s, 5 * n),
                 [R1 |-> R1, R2 |-> R2, a1 |-> ideality_factor1, Q1 |-> Q1, sigma |-> sigma])

_sim_cir4(size_number, number_of_point, angular_frequency, resistance_range, alpha_range, q_range, sigma_range, s) ==
    LET n == size_number
        R1 == log_rand(resistance_range[1], resistance_range[2], n, s)
        Zr1 == genZR(n, number_of_point, R1)
        R2 == log_rand(resistance_range[1], resistance_range[2], n, RngSkip(s, n))
        Zr2 == genZR(n, number_of_point, R2)
        ideality_factor1 == round(lin_rand(alpha_range[1], alpha_range[2], n, RngSkip(s, 2 * n)), AlphaDecimals)
        Q1 == log_rand(q_range[1], q_range[2], n, RngSkip(s, 3 * n))
        Zq1 == genZQ(n, number_of_point, Q1, ideality_factor1, angular_frequency)
        ideality_factor2 == round(lin_rand(alpha_range[1], alpha_range[2], n, RngSkip(s, 4 * n)), AlphaDecimals)
        Q2 == log_rand(q_range[1], q_range[2], n, RngSkip(s, 5 * n))
        Zq2 == genZQ(n, number_of_point, Q2, ideality_factor1, angular_frequency)
        R3 == log_rand(resistance_range[1], resistance_range[2], n, RngSkip(s, 6 * n))
        Zr3 == genZR(n, number_of_point, R3)
        sigma == log_rand(sigma_range[1], sigma_range[2], n, RngSkip(s, 7 * n))
        Zw == genZW(n, number_of_point, sigma, angular_frequency)
        Zsum == MAdd(MAdd(Zr1, MInv(MAdd(MInv(Zr2), MInv(Zq1)))),
                     MInv(MAdd(MInv(Zq2), MInv(MAdd(Zr3, Zw)))))
        Zparam == [idx \in 1..n |->
            <<R1[idx], R2[idx], R3[idx], ideality_factor1[idx], Q1[idx], ideality_factor2[idx], Q2[idx], sigma[idx]>>]
    IN  Returned(Zsum, Zparam, RngSkip(s, 8 * n),
                 [R1 |-> R1, R2 |-> R2, R3 |-> R3, a1 |-> ideality_factor1, Q1 |-> Q1,
                  a2 |-> ideality_factor2, Q2 |-> Q2, sigma |-> sigma])

\* _sim_cir5 with the two branches in series, as in circuit 4.
_sim_cir5_series(size_number, number_of_point, angular_frequency, resistance_range, alpha_range, q_range, sigma_range, s) ==
    LET n == size_number
        R1 == log_rand(resistance_range[1], resistance_range[2], n, s)
        Zr1 == genZR(n, number_of_point, R1)
        R2 == log_rand(resistance_range[1], resistance_range[2], n, RngSkip(s, n))
        Zr2 == genZR(n, number_of_point, R2)
        ideality_factor1 == round(lin_rand(alpha_range[1], alpha_range[2], n, RngSkip(s, 2 * n)), AlphaDecimals)
        Q1 == log_rand(q_range[1], q_range[2], n, RngSkip(s, 3 * n))
        Zq1 == genZQ(n, number_of_point, Q1, ideality_factor1, angular_frequency)
        R3 == log_rand(resistance_range[1], resistance_range[2], n, RngSkip(s, 4 * n))
        Zr3 == genZR(n, number_of_point, R3)
        ideality_factor2 == round(lin_rand(alpha_range[1], alpha_range[2], n, RngSkip(s, 5 * n)), AlphaDecimals)
        Q2 == log_rand(q_range[1], q_range[2], n, RngSkip(s, 6 * n))
        Zq2 == genZQ(n, number_of_point, Q2, ideality_factor1, angular_frequency)
        sigma == log_rand(sigma_range[1], sigma_range[2], n, RngSkip(s, 7 * n))
        Zw == genZW(n, number_of_point, sigma, angular_frequency)
        Zsum == MAdd(MAdd(Zr1, MInv(MAdd(MInv(Zr2), MInv(Zq1)))),
                     MInv(MAdd(MInv(MAdd(Zr3, Zw)), MInv(Zq2))))
        Zparam == [idx \in 1..n |->
            <<R1[idx], R2[idx], R3[idx], ideality_factor1[idx], Q1[idx], ideality_factor2[idx], Q2[idx], sigma[idx]>>]
    IN  Returned(Zsum, Zparam, RngSkip(s, 8 * n),
                 [R1 |-> R1, R2 |-> R2, R3 |-> R3, a1 |-> ideality_factor1, Q1 |-> Q1,
                  a2 |-> ideality_factor2, Q2 |-> Q2, sigma |-> sigma])

_sim_cir5(size_number, number_of_point, angular_frequency, resistance_range, alpha_range, q_range, sigma_range, s) ==
    LET n == size_number
        R1 == log_rand(resistance_range[1], resistance_range[2], n, s)
        Zr1 == genZR(n, number_of_point, R1)
        R2 == log_rand(resistance_range[1], resistance_range[2], n, RngSkip(s, n))
        Zr2 == genZR(n, number_of_point, R2)
        ideality_factor1 == round(lin_rand(alpha_range[1], alpha_range[2], n, RngSkip(s, 2 * n)), AlphaDecimals)
        Q1 == log_rand(q_range[1], q_range[2], n, RngSkip(s, 3 * n))
        Zq1 == genZQ(n, number_of_point, Q1, ideality_factor1, angular_frequency)
        R3 == log_rand(resistance_range[1], resistance_range[2], n, RngSkip(s, 4 * n))
        Zr3 == genZR(n, number_of_point, R3)
        ideality_factor2 == round(lin_rand(alpha_range[1], alpha_range[2], n, RngSkip(s, 5 * n)), AlphaDecimals)
        Q2 == log_rand(q_range[1], q_range[2], n, RngSkip(s, 6 * n))
        Zq2 == genZQ(n, number_of_point, Q2, ideality_factor1, angular_frequency)
        sigma == log_rand(sigma_range[1], sigma_range[2], n, RngSkip(s, 7 * n))
        Zw == genZW(n, number_of_point, sigma, angular_frequency)
        Zsum == MAdd(Zr1, MInv(MAdd(
                    MInv(MAdd(Zr2, MInv(MAdd(MInv(MAdd(Zr3, Zw)), MInv(Zq2))))),
                    MInv(Zq1))))
        Zparam == [idx \in 1..n |->
            <<R1[idx], R2[idx], R3[idx], ideality_factor1[idx], Q1[idx], ideality_factor2[idx], Q2[idx], sigma[idx]>>]
    IN  Returned(Zsum, Zparam, RngSkip(s, 8 * n),
                 [R1 |-> R1, R2 |-> R2, R3 |-> R3, a1 |-> ideality_factor1, Q1 |-> Q1,
                  a2 |-> ideality_factor2, Q2 |-> Q2, sigma |-> sigma])

\* raise ValueError(f"Unknown circuit_id: {circuit_id}")
Raised(s) ==
    [status |-> "ValueError", Zsum |-> <<>>, Zparam |-> <<>>, rng |-> s, elements |-> <<>>]

\* sim_circuit with a default topology in place of the final raise.
sim_circuit_fallback(circuit_id, size_number, number_of_point, angular_frequency, resistance_range, alpha_range, q_range, sigma_range, s) ==
    CASE circuit_id = 2 ->
            _sim_cir2(size_number, number_of_point, angular_frequency, resistance_range, alpha_range, q_range, s)
      [] circuit_id = 3 ->
            _sim_cir3(size_number, number_of_point, angular_frequency, resistance_range, alpha_range, q_range, sigma_range, s)
      [] circuit_id = 4 ->
            _sim_cir4(size_number, number_of_point, angular_frequency, resistance_range, alpha_range, q_range, sigma_range, s)
      [] circuit_id = 5 ->
            _sim_cir5(size_number, number_of_point, angular_frequency, resistance_range, alpha_range, q_range, sigma_range, s)
      [] OTHER ->
            _sim_cir1(size_number, number_of_point, angular_frequency, resistance_range, alpha_range, q_range, s)

sim_circuit(circuit_id, size_number, number_of_point, angular_frequency, resistance_range, alpha_range, q_range, sigma_range, s) ==
    CASE circuit_id = 1 ->
            _sim_cir1(size_number, number_of_point, angular_frequency, resistance_range, alpha_range, q_range, s)
      [] circuit_id = 2 ->
            _sim_cir2(size_number, number_of_point, angular_frequency, resistance_range, alpha_range, q_range, s)
      [] circuit_id = 3 ->
            _sim_cir3(size_number, number_of_point, angular_frequency, resistance_range, alpha_range, q_range, sigma_range, s)
      [] circuit_id = 4 ->
            _sim_cir4(size_number, number_of_point, angular_frequency, resistance_range, alpha_range, q_range, sigma_range, s)
      [] circuit_id = 5 ->
            _sim_cir5(size_number, number_of_point, angular_frequency, resistance_range, alpha_range, q_range, sigma_range, s)
      [] OTHER -> Raised(s)

\* The parameter table of the simulator page, exported as CSV:
\* pd.DataFrame(Zparam, columns=CIRCUIT_INFO[cid]["params"]).
df_params(cid, Zparam) == [columns |-> CIRCUIT_INFO[cid]["params"], data |-> Zparam]

(***************************************************************************)
(* numpy arrays: a shape and the entry at every index tuple (indices from  *)
(* 1 where Python's start from 0).  An array with a dimension of size 0    *)
(* has no entry and keeps its shape.                                       *)
(***************************************************************************)
Indices(shape) ==
    CASE Len(shape) = 1 -> {<<i>> : i \in 1..shape[1]}
      [] Len(shape) = 2 -> (1..shape[1]) \X (1..shape[2])
      [] Len(shape) = 3 -> (1..shape[1]) \X (1..shape[2]) \X (1..shape[3])

ndarray(shape, at) == [shape |-> shape, at |-> at]

\* np.array(rows) for rows of ncols entries each.
array(rows, ncols) ==
    ndarray(<<Len(rows), ncols>>,
            [t \in Indices(<<Len(rows), ncols>>) |-> rows[t[1]][t[2]]])

\* A complex number is re + im*1j with integer parts, or, for a simulated
\* impedance, the term that computes it; a function of a term is a term.
Cx(re, im) == [re |-> re, im |-> im]
IsTerm(v) == "op" \in DOMAIN v

imag(z) == IF IsTerm(z) THEN [op |-> "imag", args |-> <<z>>] ELSE Lin(z.im, 1)
real(z) == IF IsTerm(z) THEN [op |-> "real", args |-> <<z>>] ELSE Lin(z.re, 1)

\* v * -1 on floats.
minus(v) ==
    IF IsTerm(v) \/ v.k # "lin" THEN [op |-> "*-1", args |-> <<v>>] ELSE Lin(-v.n, v.d)

\* np.absolute: sqrt(re^2 + im^2), kept as the number under the root.
absolute(z) ==
    IF IsTerm(z) THEN [op |-> "absolute", args |-> <<z>>]
    ELSE [k |-> "sqrt", n |-> z.re * z.re + z.im * z.im, d |-> 1]

\* y / x on floats: x / 0 is +-inf and 0 / 0 is nan (a warning, no exception).
divide(y, x) ==
    IF IsTerm(y) \/ IsTerm(x) THEN [op |-> "/", args |-> <<y, x>>]
    ELSE CASE x.n = 0 /\ y.n > 0 -> PInf
           [] x.n = 0 /\ y.n < 0 -> NInf
           [] x.n = 0 /\ y.n = 0 -> LNaN
           [] OTHER ->
                LET n == y.n * x.d
                    d == y.d * x.n
                    g == GCD(Abs(n), Abs(d))
                IN  Fin((IF d < 0 THEN -n ELSE n) \div g, Abs(d) \div g)

\* An angle in radians is arctan(tan) + turn * pi, with arctan(tan) in
\* [-pi/2, pi/2] (arctan(+-inf) = +-pi/2, arctan(nan) = nan).
arctan(q) ==
    IF IsTerm(q) THEN [op |-> "arctan", args |-> <<q>>]
    ELSE [k |-> "rad", tan |-> q, turn |-> 0]

\* np.arctan2(y, x): the angle of the point (x, y), in (-pi, pi]; it is
\* arctan(y / x) for x > 0 and arctan(y / x) +- pi for x < 0.
arctan2(y, x) ==
    IF IsTerm(y) \/ IsTerm(x) THEN [op |-> "arctan2", args |-> <<y, x>>]
    ELSE [k |-> "rad",
          tan |-> IF x.n = 0 /\ y.n = 0 THEN Fin(0, 1) ELSE divide(y, x),
          turn |-> CASE x.n >= 0 -> 0
                     [] x.n < 0 /\ y.n >= 0 -> 1
                     [] OTHER -> -1]

\* np.degrees: radians * 180 / pi; the angle is arctan(tan) in degrees + off.
HalfTurnDegrees == 180
degrees(a) ==
    IF IsTerm(a) THEN [op |-> "degrees", args |-> <<a>>]
    ELSE [k |-> "deg", tan |-> a.tan, off |-> HalfTurnDegrees * a.turn]

(***************************************************************************)
(* The target matrix y of the training path.                               *)
(***************************************************************************)
\* v * 10**e on floats: "pos" values carry their base-10 logarithm.
RECURSIVE times_pow10(_, _)
times_pow10(v, e) ==
    CASE IsTerm(v) -> [op |-> "*10**", args |-> <<v, e>>]
      [] v.k = "pos" -> [k |-> "pos", n |-> v.n + e * v.d, d |-> v.d]
      [] v.k = "lin" -> IF e = 0 THEN Reduced(v.n, v.d)
                        ELSE times_pow10(MulR(v, 10, 1), e - 1)
      [] OTHER -> v

\* y[:, col] = y[:, col] * 10**e, col counted from 0 as in the code.
scale_column(y, col, e) ==
    ndarray(y.shape, [t \in DOMAIN y.at |->
                        IF t[2] = col + 1 THEN times_pow10(y.at[t], e) ELSE y.at[t]])

\* np.delete(y, cols, axis=1), cols counted from 0.
delete(y, cols) ==
    LET keep == SelectSeq([j \in 1..y.shape[2] |-> j], LAMBDA j : (j - 1) \notin cols)
        shape == <<y.shape[1], Len(keep)>>
    IN  ndarray(shape, [t \in Indices(shape) |-> y.at[<<t[1], keep[t[2]]>>]])

\* np.atleast_2d(np.squeeze(y)) on the two-dimensional y_data of a .mat
\* file, followed by lines 52-55: squeeze drops every axis of length 1 and
\* atleast_2d puts one in front, so (n, 1) with n # 1 becomes (1, n); the
\* branch that would transpose (n, 1) is then never taken.
squeeze_2d(y) ==
    LET sq == IF y.shape[1] # 1 /\ y.shape[2] = 1
              THEN ndarray(<<1, y.shape[1]>>,
                           [t \in Indices(<<1, y.shape[1]>>) |-> y.at[<<t[2], 1>>]])
              ELSE y
    IN  IF sq.shape[1] = 1 THEN sq
        ELSE IF sq.shape[2] = 1 /\ sq.shape[1] > 1
        THEN ndarray(<<1, sq.shape[1]>>,
                     [t \in Indices(<<1, sq.shape[1]>>) |-> sq.at[<<t[2], 1>>]])
        ELSE sq

\* The names of the regression targets, in column order.
PARAM_NAMES == <<"Rs", "R1", "R2", "Q1", "Q2", "Sigma">>

\* The exponents of the column scaling (ml_model.py lines 74-81).
TestQScale == 6
TrainAlphaScale == 4
TrainQScale == 7

\* scale_targets with the test-mode factor the documentation of the data
\* model gives for the Q columns (10^4).
scale_targets_documented(y, is_test) ==
    IF y.shape[2] >= 7
    THEN delete(IF is_test
                THEN scale_column(scale_column(y, 4, TrainAlphaScale), 6, TrainAlphaScale)
                ELSE scale_column(scale_column(scale_column(scale_column(y,
                         3, TrainAlphaScale), 4, TrainQScale), 5, TrainAlphaScale),
                         6, TrainQScale),
                {3, 5})
    ELSE y

\* Lines 70-85: with 7 or more columns, the columns 3..6 are scaled (test
\* mode: 4 and 6 by 10^6; otherwise 3 and 5 by 10^4, 4 and 6 by 10^7) and
\* the columns 3 and 5 are deleted; with fewer columns y is left as it is.
scale_targets(y, is_test) ==
    IF y.shape[2] >= 7
    THEN delete(IF is_test
                THEN scale_column(scale_column(y, 4, TestQScale), 6, TestQScale)
                ELSE scale_column(scale_column(scale_column(scale_column(y,
                         3, TrainAlphaScale), 4, TrainQScale), 5, TrainAlphaScale),
                         6, TrainQScale),
                {3, 5})
    ELSE y

(***************************************************************************)
(* The two feature encoders of a spectrum matrix.                          *)
(***************************************************************************)
\* arrange_data with np.arctan2 in place of np.arctan.
arrange_data_arctan2(Circuit, cir_class, size_number, number_of_point) ==
    LET imge == [t \in DOMAIN Circuit.at |-> imag(Circuit.at[t])]
        phase == [t \in DOMAIN Circuit.at |->
                    degrees(arctan2(imag(Circuit.at[t]), real(Circuit.at[t])))]
        mag == [t \in DOMAIN Circuit.at |-> absolute(Circuit.at[t])]
        xshape == <<size_number, 3, number_of_point>>
    IN  IF size_number < 0 \/ number_of_point < 0
        THEN [status |-> "ValueError", x |-> <<>>, y |-> <<>>]
        ELSE IF /\ size_number > 0
                /\ number_of_point > 0
                /\ (size_number > Circuit.shape[1] \/ number_of_point > Circuit.shape[2])
        THEN [status |-> "IndexError", x |-> <<>>, y |-> <<>>]
        ELSE [status |-> "ok",
              x |-> ndarray(xshape, [t \in Indices(xshape) |->
                        CASE t[2] = 1 -> imge[<<t[1], t[3]>>]
                          [] t[2] = 2 -> phase[<<t[1], t[3]>>]
                          [] t[2] = 3 -> mag[<<t[1], t[3]>>]]),
              y |-> ndarray(<<size_number>>,
                            [t \in Indices(<<size_number>>) |-> Lin(cir_class, 1)])]

\* The export path.  np.zeros raises ValueError for a negative size.  The
\* loops read imge[idx][idx2] for idx < size_number and idx2 <
\* number_of_point: arguments beyond the shape of Circuit raise IndexError
\* when the inner loop runs at all, and nothing else in the body checks a
\* shape.
arrange_data(Circuit, cir_class, size_number, number_of_point) ==
    LET imge == [t \in DOMAIN Circuit.at |-> imag(Circuit.at[t])]
        phase == [t \in DOMAIN Circuit.at |->
                    degrees(arctan(divide(imag(Circuit.at[t]), real(Circuit.at[t]))))]
        mag == [t \in DOMAIN Circuit.at |-> absolute(Circuit.at[t])]
        xshape == <<size_number, 3, number_of_point>>
    IN  IF size_number < 0 \/ number_of_point < 0
        THEN [status |-> "ValueError", x |-> <<>>, y |-> <<>>]
        ELSE IF /\ size_number > 0
                /\ number_of_point > 0
                /\ (size_number > Circuit.shape[1] \/ number_of_point > Circuit.shape[2])
        THEN [status |-> "IndexError", x |-> <<>>, y |-> <<>>]
        ELSE [status |-> "ok",
              x |-> ndarray(xshape, [t \in Indices(xshape) |->
                        CASE t[2] = 1 -> imge[<<t[1], t[3]>>]
                          [] t[2] = 2 -> phase[<<t[1], t[3]>>]
                          [] t[2] = 3 -> mag[<<t[1], t[3]>>]]),
              y |-> ndarray(<<size_number>>,
                            [t \in Indices(<<size_number>>) |-> Lin(cir_class, 1)])]

\* The .mat download of the simulator page with the imaginary part negated
\* (the -Im(Z) of a Nyquist plot) in channel 0.
download_mat_nyquist(Zsum, Zparam) ==
    LET imge == [t \in DOMAIN Zsum.at |-> minus(imag(Zsum.at[t]))]
        phase == [t \in DOMAIN Zsum.at |->
                    degrees(arctan2(imag(Zsum.at[t]), real(Zsum.at[t])))]
        mag == [t \in DOMAIN Zsum.at |-> absolute(Zsum.at[t])]
        stacked == <<imge, phase, mag>>
        xshape == <<Zsum.shape[1], Len(stacked), Zsum.shape[2]>>
    IN  [status |-> "ok",
         x_data |-> ndarray(xshape, [t \in Indices(xshape) |->
                                        stacked[t[2]][<<t[1], t[3]>>]]),
         y_data |-> Zparam]

\* The .mat download with the target scaling of the training path applied
\* to the parameter matrix before it is written.
download_mat_scaled(Zsum, Zparam) ==
    LET imge == [t \in DOMAIN Zsum.at |-> imag(Zsum.at[t])]
        phase == [t \in DOMAIN Zsum.at |->
                    degrees(arctan2(imag(Zsum.at[t]), real(Zsum.at[t])))]
        mag == [t \in DOMAIN Zsum.at |-> absolute(Zsum.at[t])]
        stacked == <<imge, phase, mag>>
        xshape == <<Zsum.shape[1], Len(stacked), Zsum.shape[2]>>
    IN  [status |-> "ok",
         x_data |-> ndarray(xshape, [t \in Indices(xshape) |->
                                        stacked[t[2]][<<t[1], t[3]>>]]),
         y_data |-> scale_targets(Zparam, FALSE)]

\* The .mat download of the simulator page (app.py lines 784-794):
\* x_data = np.stack([imge, phase, mag], axis=1), y_data = Zparam.
download_mat(Zsum, Zparam) ==
    LET imge == [t \in DOMAIN Zsum.at |-> imag(Zsum.at[t])]
        phase == [t \in DOMAIN Zsum.at |->
                    degrees(arctan2(imag(Zsum.at[t]), real(Zsum.at[t])))]
        mag == [t \in DOMAIN Zsum.at |-> absolute(Zsum.at[t])]
        stacked == <<imge, phase, mag>>
        xshape == <<Zsum.shape[1], Len(stacked), Zsum.shape[2]>>
    IN  [status |-> "ok",
         x_data |-> ndarray(xshape, [t \in Indices(xshape) |->
                                        stacked[t[2]][<<t[1], t[3]>>]]),
         y_data |-> Zparam]

(***************************************************************************)
(* The two preprocessors of a .mat file: a record with the arrays x_data   *)
(* (n, C, N) and y_data (n, P).                                            *)
(***************************************************************************)
\* np.swapaxes(x, 1, 2) on a three-dimensional array.
swapaxes(x) ==
    LET shape == <<x.shape[1], x.shape[3], x.shape[2]>>
    IN  ndarray(shape, [t \in Indices(shape) |-> x.at[<<t[1], t[3], t[2]>>]])

\* a[idxs]: the rows of a at the given positions, in that order.
take(a, idxs) ==
    LET shape == <<Len(idxs)>> \o Tail(a.shape)
    IN  ndarray(shape, [t \in Indices(shape) |-> a.at[<<idxs[t[1]]>> \o Tail(t)]])

\* x.reshape(x.shape[0], -1) on a three-dimensional array, and .flatten()
\* of one of its rows: row-major order, the last axis varying fastest.
reshape(x) ==
    LET shape == <<x.shape[1], x.shape[2] * x.shape[3]>>
    IN  ndarray(shape, [t \in Indices(shape) |->
            x.at[<<t[1], ((t[2] - 1) \div x.shape[3]) + 1, ((t[2] - 1) % x.shape[3]) + 1>>]])

\* sklearn's train_test_split(new_x, y, test_size, random_state): arrays of
\* different lengths raise ValueError, and so does an empty training set;
\* n_test = ceil(test_size * n); the samples are shuffled (order is the
\* permutation drawn from random_state), the first n_test go to the test
\* set and the others to the training set.  test_size is <<p, q>> for p/q.
train_test_split(new_x, y, test_size, order) ==
    LET n == new_x.shape[1]
        n_test == (test_size[1] * n + test_size[2] - 1) \div test_size[2]
        test == SubSeq(order, 1, n_test)
        train == SubSeq(order, n_test + 1, n)
    IN  IF y.shape[1] # n \/ n - n_test = 0
        THEN [status |-> "ValueError", x_train |-> <<>>, x_test |-> <<>>,
              y_train |-> <<>>, y_test |-> <<>>]
        ELSE [status |-> "ok", x_train |-> take(new_x, train), x_test |-> take(new_x, test),
              y_train |-> take(y, train), y_test |-> take(y, test)]

\* load_and_preprocess_data with the added channels copied, not negated.
load_and_preprocess_data_copied(mat, test_size, is_test, order) ==
    LET y0 == squeeze_2d(mat.y_data)
        x == swapaxes(mat.x_data)
        n_input_channels == x.shape[3]
        new_shape == <<x.shape[1], x.shape[2], n_input_channels * 2>>
        new_x == ndarray(new_shape, [t \in Indices(new_shape) |->
                    IF t[3] <= n_input_channels THEN x.at[t]
                    ELSE x.at[<<t[1], t[2], t[3] - n_input_channels>>]])
        y == scale_targets(y0, is_test)
        split == train_test_split(new_x, y, test_size, order)
    IN  [status |-> split.status,
         x_train |-> split.x_train, x_test |-> split.x_test,
         y_train |-> split.y_train, y_test |-> split.y_test,
         new_x |-> new_x, y |-> y]

\* ml_model.load_and_preprocess_data.  new_x and y are the arrays handed to
\* train_test_split, kept with the result.  Nothing is validated: a file
\* that loadmat fails on ([corrupt |-> TRUE]) raises loadmat's error, a
\* missing x_data or y_data raises KeyError (lines 46-47) and an x_data
\* that is a matrix raises numpy's AxisError in np.swapaxes (line 57).
load_and_preprocess_data(mat, test_size, is_test, order) ==
    IF "corrupt" \in DOMAIN mat
    THEN [status |-> "ValueError", x_train |-> <<>>, x_test |-> <<>>,
          y_train |-> <<>>, y_test |-> <<>>, new_x |-> <<>>, y |-> <<>>]
    ELSE IF "x_data" \notin DOMAIN mat \/ "y_data" \notin DOMAIN mat
    THEN [status |-> "KeyError", x_train |-> <<>>, x_test |-> <<>>,
          y_train |-> <<>>, y_test |-> <<>>, new_x |-> <<>>, y |-> <<>>]
    ELSE IF Len(mat.x_data.shape) < 3
    THEN [status |-> "AxisError", x_train |-> <<>>, x_test |-> <<>>,
          y_train |-> <<>>, y_test |-> <<>>, new_x |-> <<>>, y |-> <<>>]
    ELSE
    LET y0 == squeeze_2d(mat.y_data)
        x == swapaxes(mat.x_data)
        n_input_channels == x.shape[3]
        new_shape == <<x.shape[1], x.shape[2], n_input_channels * 2>>
        new_x == ndarray(new_shape, [t \in Indices(new_shape) |->
                    IF t[3] <= n_input_channels THEN x.at[t]
                    ELSE minus(x.at[<<t[1], t[2], t[3] - n_input_channels>>])])
        y == scale_targets(y0, is_test)
        split == train_test_split(new_x, y, test_size, order)
    IN  [status |-> split.status,
         x_train |-> split.x_train, x_test |-> split.x_test,
         y_train |-> split.y_train, y_test |-> split.y_test,
         new_x |-> new_x, y |-> y]

\* load_mat_spectrum without the transposition of x_data.
load_mat_spectrum_untransposed(mat) ==
    IF "corrupt" \in DOMAIN mat \/ "x_data" \notin DOMAIN mat
    THEN [status |-> "ValueError", sample |-> <<>>, augmented |-> <<>>]
    ELSE IF Len(mat.x_data.shape) < 3
    THEN [status |-> "AxisError", sample |-> <<>>, augmented |-> <<>>]
    ELSE
    LET x == mat.x_data
        n_channels == x.shape[3]
        shape == <<x.shape[1], x.shape[2], n_channels * 2>>
        augmented == ndarray(shape, [t \in Indices(shape) |->
                        IF t[3] <= n_channels THEN x.at[t]
                        ELSE minus(x.at[<<t[1], t[2], t[3] - n_channels>>])])
        sample == take(reshape(augmented), <<1>>)
    IN  IF x.shape[1] = 0
        THEN [status |-> "IndexError", sample |-> <<>>, augmented |-> augmented]
        ELSE [status |-> "ok", sample |-> sample, augmented |-> augmented]

\* corrosion_predictor.load_mat_spectrum.  A file that loadmat fails on
\* (CorruptFile, defined with the uploads below: [corrupt |-> TRUE]) and a
\* file without x_data raise ValueError.  Nothing in the body checks a
\* shape: np.swapaxes(x, 1, 2) raises numpy's AxisError on a matrix (loadmat
\* returns no array of fewer than 2 dimensions), augmented[0] raises
\* IndexError on a file without samples, and a file of samples without
\* points or channels gives a row of no feature.  augmented is kept with the
\* result.
load_mat_spectrum(mat) ==
    IF "corrupt" \in DOMAIN mat \/ "x_data" \notin DOMAIN mat
    THEN [status |-> "ValueError", sample |-> <<>>, augmented |-> <<>>]
    ELSE IF Len(mat.x_data.shape) < 3
    THEN [status |-> "AxisError", sample |-> <<>>, augmented |-> <<>>]
    ELSE
    LET x == swapaxes(mat.x_data)
        n_channels == x.shape[3]
        shape == <<x.shape[1], x.shape[2], n_channels * 2>>
        augmented == ndarray(shape, [t \in Indices(shape) |->
                        IF t[3] <= n_channels THEN x.at[t]
                        ELSE minus(x.at[<<t[1], t[2], t[3] - n_channels>>])])
        sample == take(reshape(augmented), <<1>>)
    IN  IF x.shape[1] = 0
        THEN [status |-> "IndexError", sample |-> <<>>, augmented |-> augmented]
        ELSE [status |-> "ok", sample |-> sample, augmented |-> augmented]

\* The sign of a real argument; 2*pi*f has the sign of f.
SignOf(v) == IF "op" \in DOMAIN v THEN v.args[1].k ELSE v.k

\* What a direct call of Z_Q gives its caller.  The body is the one
\* expression 1 / (Q * (w * 1j) ** alpha) and checks nothing.  With built-in
\* floats for every argument the divisor is the Python complex 0j when Q = 0,
\* or when w = 0 and alpha # 0, and the division raises ZeroDivisionError;
\* with a numpy scalar among the arguments (as genZQ passes them) the same
\* division returns inf/nan under a RuntimeWarning.  Every other argument,
\* negative ones included, gives a number.
Z_Q_call(non_ideal_capacitance, ideality_factor, angular_frequency, builtin) ==
    IF builtin /\ (SignOf(non_ideal_capacitance) = "zero"
                      \/ (SignOf(angular_frequency) = "zero" /\ ideality_factor.n # 0))
    THEN [status |-> "ZeroDivisionError", value |-> <<>>]
    ELSE [status |-> "ok",
          value |-> Z_Q(non_ideal_capacitance, ideality_factor, angular_frequency)]

\* What a direct call of Z_W gives its caller: np.sqrt returns numpy scalars,
\* so the division never raises, whatever the sign of w.
Z_W_call(sigma, angular_frequency) ==
    [status |-> "ok", value |-> Z_W(sigma, angular_frequency)]

(***************************************************************************)
(* The inputs the calls are made with.                                     *)
(***************************************************************************)
Frequencies == {Pos(-2), Pos(0), Pos(6), Zero, Neg}

\* Arguments of direct calls of the element functions.
ElementValues == {Pos(-4), Zero, Neg}
ElementAlphas == {Lin(9, 10), Lin(2, 1)}
ElementFrequencies == {TwoPiTimes(Pos(0)), TwoPiTimes(Zero), TwoPiTimes(Neg)}

DefaultResistance == <<Pos(-1), Pos(4)>>
DefaultAlpha == <<Lin(4, 5), Lin(1, 1)>>
DefaultQ == <<Pos(-5), Pos(-3)>>
DefaultSigma == <<Pos(0), Pos(3)>>

ResistanceRanges ==
    {DefaultResistance, <<Pos(2), Pos(2)>>, <<Pos(4), Pos(-1)>>,
     <<Zero, Pos(4)>>, <<Neg, Pos(4)>>, <<Pos(0), Zero>>}
AlphaRanges ==
    {DefaultAlpha, <<Lin(1, 2), Lin(1, 1)>>,
     <<Lin(2001, 2500), Lin(9, 10)>>, <<Lin(9, 10), Lin(9, 10)>>}
QRanges == {DefaultQ, <<Pos(-3), Pos(-5)>>, <<Zero, Pos(-3)>>}
SigmaRanges == {DefaultSigma, <<Pos(3), Pos(0)>>, <<Neg, Pos(3)>>}

\* <<resistance_range, alpha_range, q_range, sigma_range>>: the defaults of
\* the simulator page with one range varied at a time.
RangeChoices ==
    {<<r, DefaultAlpha, DefaultQ, DefaultSigma>> : r \in ResistanceRanges}
    \cup {<<DefaultResistance, a, DefaultQ, DefaultSigma>> : a \in AlphaRanges}
    \cup {<<DefaultResistance, DefaultAlpha, q, DefaultSigma>> : q \in QRanges}
    \cup {<<DefaultResistance, DefaultAlpha, DefaultQ, sg>> : sg \in SigmaRanges}

\* A range the specification calls well formed: 0 < min <= max.
WellFormed(range) == range[1].k = "pos" /\ range[2].k = "pos" /\ LeVal(range[1], range[2])

(***************************************************************************)
(* The state machine: a caller makes one call at a time with arguments of  *)
(* its choice and takes the result; the generator state is the only state  *)
(* that outlives a call.                                                   *)
(***************************************************************************)
NoCall == [fn |-> "none"]
NoResult == [status |-> "none"]

\* The options of the sidebar radio (app.py lines 567-571), without their
\* icons; the first one is selected when a session starts.
Pages ==
    <<"EIS Simulator", "Model Training", "EIS Spectrum Prediction",
      "Environmental Prediction">>

\* The nine controls of the simulator's sidebar at their initial values
\* (app.py lines 601-630).  The sliders of the page run from 1 to 512
\* spectra and from 20 to 200 points; here they run over 1..MaxSize and
\* 2..MaxPoints and start at the upper end.  The three exponent sliders are
\* kept as the ranges [10**lo, 10**hi] computed from them.
SidebarDefault ==
    [circuit_id |-> 1, size_number |-> MaxSize, number_of_point |-> MaxPoints,
     freq_min |-> Pos(-2), freq_max |-> Pos(6),
     resistance_range |-> DefaultResistance, alpha_range |-> DefaultAlpha,
     q_range |-> DefaultQ, sigma_range |-> DefaultSigma]

\* Python's None, and a screen without elements or exception.
None == [kind |-> "None"]
Blank == [exception |-> "none", elements |-> {}]

\* A session starts on the simulator page with nothing stored, no file
\* uploaded and no temporary file of its own.
AppStart ==
    /\ page = Pages[1]
    /\ sidebar = SidebarDefault
    /\ session_state = [key \in {} |-> None]
    /\ uploaded_file = None
    /\ tmp_files = {}

\* A caller of the functions has imported their modules: both directories
\* are on its path.  No page has run.
Init ==
    /\ rng \in 0..(RngStates - 1)
    /\ call = NoCall
    /\ result = NoResult
    /\ AppStart
    /\ screen = Blank
    /\ sys_path = {".", "utils"}

CallFRange ==
    /\ call.fn = "none"
    /\ \E f_min \in Frequencies, f_max \in Frequencies, n_points \in (-1)..MaxPoints :
          /\ call' = [fn |-> "F_range", initial_frequency |-> f_min,
                      last_frequency |-> f_max, number_of_point |-> n_points]
          /\ result' = F_range(f_min, f_max, n_points)
    /\ UNCHANGED <<rng, app>>

\* The angular frequencies are those of a grid of number_of_point points, as
\* the simulator page passes them (app.py lines 636-641).
CallSimCircuit ==
    /\ call.fn = "none"
    /\ \E circuit_id \in 0..6, size_number \in 1..MaxSize,
          number_of_point \in 2..MaxPoints, rc \in RangeChoices :
          LET w == F_range(Pos(-2), Pos(6), number_of_point).angular_frequency
              res == sim_circuit(circuit_id, size_number, number_of_point, w,
                                 rc[1], rc[2], rc[3], rc[4], Gen(rng))
          IN  /\ call' = [fn |-> "sim_circuit", circuit_id |-> circuit_id,
                          size_number |-> size_number,
                          number_of_point |-> number_of_point,
                          angular_frequency |-> w,
                          resistance_range |-> rc[1], alpha_range |-> rc[2],
                          q_range |-> rc[3], sigma_range |-> rc[4]]
              /\ result' = res
              /\ rng' = res.rng.x
              /\ UNCHANGED app

\* log_rand and lin_rand are functions of the module in their own right: a
\* direct call draws size_number numbers from the generator.
CallLogRand ==
    /\ call.fn = "none"
    /\ \E range \in ResistanceRanges, size_number \in 0..MaxSize :
          /\ call' = [fn |-> "log_rand", initial_gen |-> range[1],
                      last_gen |-> range[2], size_number |-> size_number]
          /\ result' = [status |-> "ok",
                        value |-> log_rand(range[1], range[2], size_number, Gen(rng))]
          /\ rng' = RngSkip(Gen(rng), size_number).x
    /\ UNCHANGED app

CallLinRand ==
    /\ call.fn = "none"
    /\ \E range \in AlphaRanges, size_number \in 0..MaxSize :
          /\ call' = [fn |-> "lin_rand", initial_gen |-> range[1],
                      last_gen |-> range[2], size_number |-> size_number]
          /\ result' = [status |-> "ok",
                        value |-> lin_rand(range[1], range[2], size_number, Gen(rng))]
          /\ rng' = RngSkip(Gen(rng), size_number).x
    /\ UNCHANGED app

CallZQ ==
    /\ call.fn = "none"
    /\ \E Q \in ElementValues, alpha \in ElementAlphas,
          w \in ElementFrequencies, builtin \in BOOLEAN :
          /\ call' = [fn |-> "Z_Q", non_ideal_capacitance |-> Q,
                      ideality_factor |-> alpha, angular_frequency |-> w,
                      builtin |-> builtin]
          /\ result' = Z_Q_call(Q, alpha, w, builtin)
    /\ UNCHANGED <<rng, app>>

CallZW ==
    /\ call.fn = "none"
    /\ \E sigma \in ElementValues, w \in ElementFrequencies :
          /\ call' = [fn |-> "Z_W", sigma |-> sigma, angular_frequency |-> w]
          /\ result' = Z_W_call(sigma, w)
    /\ UNCHANGED <<rng, app>>

Return ==
    /\ call.fn # "none"
    /\ call' = NoCall
    /\ result' = NoResult
    /\ UNCHANGED <<rng, app>>

Next ==
    \/ CallFRange \/ CallSimCircuit \/ CallLogRand \/ CallLinRand
    \/ CallZQ \/ CallZW \/ Return

Spec == Init /\ [][Next]_vars

(***************************************************************************)
(* The data path: spectra are encoded as feature tensors, written to .mat  *)
(* files and read back by the preprocessors.  Spectra are the simulator's  *)
(* or matrices of the complex numbers below, filled cyclically from a      *)
(* starting position.                                                      *)
(***************************************************************************)
ComplexGrid ==
    <<Cx(1, 1), Cx(-1, 1), Cx(-1, -1), Cx(1, -1), Cx(2, 0), Cx(-2, 0),
      Cx(0, 1), Cx(0, -1), Cx(0, 0), Cx(3, -1), Cx(-3, 2), Cx(-1, -2)>>

ComplexMatrix(n, N, seed) ==
    ndarray(<<n, N>>,
            [t \in Indices(<<n, N>>) |->
                ComplexGrid[((seed + (t[1] - 1) * N + t[2] - 2) % Len(ComplexGrid)) + 1]])

CallArrangeData ==
    /\ call.fn = "none"
    /\ \E n \in 0..MaxSize, N \in 0..MaxPoints, seed \in 1..Len(ComplexGrid),
          cir_class \in 0..1 :
          /\ call' = [fn |-> "arrange_data", Circuit |-> ComplexMatrix(n, N, seed),
                      cir_class |-> cir_class, size_number |-> n, number_of_point |-> N]
          /\ result' = arrange_data(ComplexMatrix(n, N, seed), cir_class, n, N)
    /\ UNCHANGED <<rng, app>>

\* The encoder of the .mat download (app.py lines 784-794) applied to a
\* stored result: Zsum and Zparam as Generate stores them for the controls
\* and a generator state (F_range, then sim_circuit with the default
\* ranges), or with a matrix of ComplexGrid in place of Zsum.  Building the
\* download draws no random number and writes nothing of the session.
DownloadMat ==
    /\ call.fn = "none"
    /\ \E circuit_id \in 1..5, size_number \in 1..MaxSize,
          number_of_point \in 2..MaxPoints, seed \in 0..Len(ComplexGrid),
          generator \in 0..(RngStates - 1) :
          \E w \in {F_range(Pos(-2), Pos(6), number_of_point).angular_frequency} :
          \E sim \in {sim_circuit(circuit_id, size_number, number_of_point, w,
                                  DefaultResistance, DefaultAlpha, DefaultQ,
                                  DefaultSigma, Gen(generator))} :
          \E Zsum \in {IF seed = 0 THEN array(sim.Zsum, number_of_point)
                        ELSE ComplexMatrix(size_number, number_of_point, seed)},
             Zparam \in {array(sim.Zparam, Len(CIRCUIT_INFO[circuit_id]["params"]))} :
             /\ call' = [fn |-> "download_mat", circuit_id |-> circuit_id,
                         size_number |-> size_number,
                         number_of_point |-> number_of_point,
                         angular_frequency |-> w, generator |-> generator,
                         Zsum |-> Zsum, Zparam |-> Zparam]
             /\ result' = download_mat(Zsum, Zparam)
    /\ UNCHANGED <<rng, app>>

\* The number of channels of an uploaded x_data goes up to MaxChannels.
MaxChannels == 3

\* An x_data of shape (n, C, N) with entries all different, of both signs.
TensorX(n, C, N) ==
    ndarray(<<n, C, N>>,
            [t \in Indices(<<n, C, N>>) |->
                LET code == ((t[1] - 1) * C + (t[2] - 1)) * N + t[3]
                IN  Lin(IF code % 3 = 0 THEN -code ELSE code, 1)])

\* A .mat file of n samples: y_data is the parameter matrix of a simulation
\* of circuit cid from generator state s with the default ranges; x_data is
\* the simulator's encoding of its spectra (C = 0) or TensorX(n, C, N).
MatFile(cid, n, C, N, s) ==
    LET w == F_range(Pos(-2), Pos(6), N).angular_frequency
        sim == sim_circuit(cid, n, N, w, DefaultResistance, DefaultAlpha,
                           DefaultQ, DefaultSigma, s)
        Zparam == array(sim.Zparam, Len(CIRCUIT_INFO[cid]["params"]))
    IN  [x_data |-> IF C = 0 THEN download_mat(array(sim.Zsum, N), Zparam).x_data
                    ELSE TensorX(n, C, N),
         y_data |-> Zparam]

\* The shapes of the files: simulated ones have n >= 1 and N >= 2.
FileShapes ==
    {sh \in (0..MaxSize) \X (0..MaxChannels) \X (0..MaxPoints) :
        sh[2] = 0 => (sh[1] >= 1 /\ sh[3] >= 2)}

\* The orders the n samples can be shuffled into.
Orders(n) == {p \in [1..n -> 1..n] : \A i \in 1..n : \E j \in 1..n : p[j] = i}

\* The generator states the uploaded files were simulated from.
FileSeeds == 4

\* The file of a single regression target: y_data is the first column of
\* the parameter matrix, stored as a column (n, 1).
SingleParameter(mat) ==
    [x_data |-> mat.x_data,
     y_data |-> ndarray(<<mat.y_data.shape[1], 1>>,
                        [t \in Indices(<<mat.y_data.shape[1], 1>>) |-> mat.y_data.at[t]])]

\* A file of n samples of one point and one channel whose y_data is an
\* (n, P) matrix of numbers all different: P = 6 is the parameter matrix the
\* preprocessor leaves behind, P = 1 a single target.
TargetsFile(n, P) ==
    [x_data |-> TensorX(n, 1, 1),
     y_data |-> ndarray(<<n, P>>,
                        [t \in Indices(<<n, P>>) |-> Lin(10 * t[1] + t[2], 1)])]

\* A call of load_and_preprocess_data on a training file (the training
\* page makes it on a copy of the upload, see start_training): a simulated
\* file, or a file of 6 columns or of one column with 2 and with 7 samples.
\* Their samples are shuffled as RandomState(random_state).permutation(n)
\* does for the default random_state = 42 (<<2, 1>> and
\* <<1, 2, 6, 3, 5, 4, 7>>) and for a random_state that leaves them in
\* place (1 for 2 samples, 293 for 7).
LoadAndPreprocess ==
    /\ call.fn = "none"
    /\ \/ \E cid \in 1..5, sh \in FileShapes, s \in 0..(FileSeeds - 1),
             test_size \in {<<1, 5>>}, is_test \in BOOLEAN, single \in BOOLEAN :
             \E mat \in {IF single
                          THEN SingleParameter(MatFile(cid, sh[1], sh[2], sh[3], Gen(s)))
                          ELSE MatFile(cid, sh[1], sh[2], sh[3], Gen(s))},
                order \in Orders(sh[1]) :
                /\ call' = [fn |-> "load_and_preprocess_data", mat |-> mat,
                            test_size |-> test_size, is_test |-> is_test,
                            order |-> order]
                /\ result' = load_and_preprocess_data(mat, test_size, is_test, order)
       \/ \E n \in {2, 7}, P \in {1, 6}, test_size \in {<<1, 5>>}, is_test \in BOOLEAN :
             \E mat \in {TargetsFile(n, P)},
                order \in {IF n = 2 THEN <<2, 1>> ELSE <<1, 2, 6, 3, 5, 4, 7>>,
                           [i \in 1..n |-> i]} :
                /\ call' = [fn |-> "load_and_preprocess_data", mat |-> mat,
                            test_size |-> test_size, is_test |-> is_test,
                            order |-> order]
                /\ result' = load_and_preprocess_data(mat, test_size, is_test, order)
    /\ UNCHANGED <<rng, app>>

\* A file is uploaded to the prediction page.
LoadMatSpectrum ==
    /\ call.fn = "none"
    /\ \E cid \in 1..5, sh \in FileShapes, s \in 0..(FileSeeds - 1) :
          \E mat \in {MatFile(cid, sh[1], sh[2], sh[3], Gen(s))} :
             /\ call' = [fn |-> "load_mat_spectrum", mat |-> mat]
             /\ result' = load_mat_spectrum(mat)
    /\ UNCHANGED <<rng, app>>

\* The encoders and the preprocessors draw no random number.
LoadInit ==
    /\ rng = 0
    /\ call = NoCall
    /\ result = NoResult
    /\ AppStart
    /\ screen = Blank
    /\ sys_path = {".", "utils"}

DataNext == CallArrangeData \/ DownloadMat \/ Return

DataSpec == LoadInit /\ [][DataNext]_vars

LoadNext == LoadAndPreprocess \/ LoadMatSpectrum \/ Return

LoadSpec == LoadInit /\ [][LoadNext]_vars

(***************************************************************************)
(* The prediction page: the uploaded files and their loaders.              *)
(***************************************************************************)
\* An upload that the reader of its format (joblib.load, pd.read_csv,
\* scipy.io.loadmat) fails on.
CorruptFile == [corrupt |-> TRUE]

\* corrosion_predictor.load_model: the object of the pickle is returned when
\* it has a predict attribute; a pickle is [object |-> its attributes].
load_model(file_buffer) ==
    IF "corrupt" \in DOMAIN file_buffer
    THEN [status |-> "ValueError", model |-> None]
    ELSE IF "predict" \notin DOMAIN file_buffer.object
    THEN [status |-> "ValueError", model |-> None]
    ELSE [status |-> "ok", model |-> file_buffer.object]

\* A cell of a CSV file is a number or a text; pandas gives a column a
\* numeric dtype when every cell of it is a number.
Text == [k |-> "str"]
IsNumericColumn(col) == \A i \in 1..Len(col) : col[i].k # "str"

\* corrosion_predictor.load_spectrum: a CSV is [columns, nrows], columns the
\* sequence of its columns; df.empty holds without a row or without a
\* column; the values of the numeric columns are returned, in file order.
load_spectrum(file_buffer) ==
    IF "corrupt" \in DOMAIN file_buffer
    THEN [status |-> "ValueError", values |-> None]
    ELSE LET df == file_buffer.columns
             nrows == file_buffer.nrows
             numeric_df == SelectSeq(df, IsNumericColumn)
             shape == <<nrows, Len(numeric_df)>>
         IN  IF Len(df) = 0 \/ nrows = 0
             THEN [status |-> "ValueError", values |-> None]
             ELSE IF Len(numeric_df) = 0
             THEN [status |-> "ValueError", values |-> None]
             ELSE [status |-> "ok",
                   values |-> ndarray(shape, [t \in Indices(shape) |->
                                                numeric_df[t[2]][t[1]]])]

\* The CSV files: unreadable ones and tables of up to 2 rows and 2 columns,
\* each column of numbers, of texts, or of a number followed by texts.
CsvColumn(kind, j, nrows) ==
    [i \in 1..nrows |->
        IF kind = "number" \/ (kind = "mixed" /\ i = 1) THEN Lin(10 * j + i, 1)
        ELSE Text]
CsvFiles ==
    {CorruptFile}
    \cup {[columns |-> <<CsvColumn(k1, 1, nrows)>>, nrows |-> nrows] :
             k1 \in {"number", "text", "mixed"}, nrows \in 0..2}
    \cup {[columns |-> <<CsvColumn(ks[1], 1, nrows), CsvColumn(ks[2], 2, nrows)>>,
           nrows |-> nrows] :
             ks \in {"number", "text", "mixed"} \X {"number", "text", "mixed"},
             nrows \in 0..2}

\* The .mat files that are not the training format: unreadable ones, files
\* without x_data, and files whose x_data is a matrix (samples by features).
OddMatFiles(mat) ==
    {CorruptFile,
     [y_data |-> mat.y_data],
     [x_data |-> reshape(mat.x_data), y_data |-> mat.y_data]}

(***************************************************************************)
(* The prediction page: features, prediction and risk level.               *)
(***************************************************************************)
RISK_THRESHOLDS ==
    [Low |-> [max |-> Lin(1, 10), color |-> "#10b981",
              bg |-> "rgba(16,185,129,0.12)", border |-> "rgba(16,185,129,0.3)"],
     Moderate |-> [max |-> Lin(1, 2), color |-> "#f59e0b",
                   bg |-> "rgba(245,158,11,0.12)", border |-> "rgba(245,158,11,0.3)"],
     Severe |-> [max |-> Inf, color |-> "#ef4444",
                 bg |-> "rgba(239,68,68,0.12)", border |-> "rgba(239,68,68,0.3)"]]

\* x < y on floats, y a finite number: false when x is nan or +inf.
float_lt(x, y) ==
    CASE x.k = "lin" -> x.n * y.d < y.n * x.d
      [] x.k = "nan" -> FALSE
      [] x.k = "inf" -> FALSE

\* classify_risk with the thresholds belonging to the lower level.
classify_risk_inclusive(corrosion_rate) ==
    IF ~float_lt(Lin(1, 10), corrosion_rate) /\ corrosion_rate.k = "lin"
    THEN LET r == RISK_THRESHOLDS["Low"] IN <<"Low", r["color"], r["bg"], r["border"]>>
    ELSE IF ~float_lt(Lin(1, 2), corrosion_rate) /\ corrosion_rate.k = "lin"
    THEN LET r == RISK_THRESHOLDS["Moderate"]
         IN  <<"Moderate", r["color"], r["bg"], r["border"]>>
    ELSE LET r == RISK_THRESHOLDS["Severe"]
         IN  <<"Severe", r["color"], r["bg"], r["border"]>>

\* corrosion_predictor.classify_risk: the thresholds are the literals 0.1
\* and 0.5 of the comparisons.
classify_risk(corrosion_rate) ==
    IF float_lt(corrosion_rate, Lin(1, 10))
    THEN LET r == RISK_THRESHOLDS["Low"] IN <<"Low", r["color"], r["bg"], r["border"]>>
    ELSE IF float_lt(corrosion_rate, Lin(1, 2))
    THEN LET r == RISK_THRESHOLDS["Moderate"]
         IN  <<"Moderate", r["color"], r["bg"], r["border"]>>
    ELSE LET r == RISK_THRESHOLDS["Severe"]
         IN  <<"Severe", r["color"], r["bg"], r["border"]>>

ENV_FEATURES ==
    <<"temperature_c", "pressure_bar", "ph", "sulfur_ppm", "flow_velocity_ms",
      "service_years">>

MATERIAL_TYPES == <<"Alloy Steel", "Carbon Steel", "Inconel", "SS304", "SS316">>

\* encode_material with the slot of the first material set for a material
\* that is not in the list.
encode_material_default(material) ==
    [i \in 1..Len(MATERIAL_TYPES) |->
        IF MATERIAL_TYPES[i] = material
              \/ (i = 1 /\ \A j \in 1..Len(MATERIAL_TYPES) : MATERIAL_TYPES[j] # material)
        THEN Lin(1, 1) ELSE Lin(0, 1)]

encode_material(material) ==
    [i \in 1..Len(MATERIAL_TYPES) |->
        IF MATERIAL_TYPES[i] = material THEN Lin(1, 1) ELSE Lin(0, 1)]

\* a.flatten() of a matrix, row by row, and seq.reshape(1, -1).
flatten(a) ==
    [j \in 1..(a.shape[1] * a.shape[2]) |->
        a.at[<<((j - 1) \div a.shape[2]) + 1, ((j - 1) % a.shape[2]) + 1>>]]
as_row(seq) == ndarray(<<1, Len(seq)>>, [t \in Indices(<<1, Len(seq)>>) |-> seq[t[2]]])

\* corrosion_predictor.build_feature_vector: the dict of the three
\* candidate rows.
build_feature_vector(spectrum, material, temperature, pressure, ph, sulfur, flow_velocity, service_years) ==
    LET flat_spectrum == flatten(spectrum)
        material_encoded == encode_material(material)
        env_features == <<temperature, pressure, ph, sulfur, flow_velocity, service_years>>
        env_arr == material_encoded \o env_features
        full == flat_spectrum \o env_arr
    IN  [full |-> as_row(full), spectrum |-> as_row(flat_spectrum), env |-> as_row(env_arr)]

\* model.predict(vec): a regressor is [predict |-> [accepts, raises,
\* returns]] with or without n_features_in_; it returns its prediction for
\* a row of an accepted width and raises its error for any other.
predict(model, vec) ==
    IF vec.shape[2] \in model.predict.accepts
    THEN [status |-> "ok", prediction |-> model.predict.returns]
    ELSE [status |-> model.predict.raises, prediction |-> <<>>]

\* prediction = model.predict(vec) followed by
\* float(np.asarray(prediction).flatten()[0]): [0] raises IndexError on an
\* empty prediction and float raises ValueError on a text.
predict_first(model, vec) ==
    LET p == predict(model, vec)
    IN  IF p.status # "ok" THEN [status |-> p.status, value |-> None]
        ELSE IF Len(p.prediction) = 0 THEN [status |-> "IndexError", value |-> None]
        ELSE IF p.prediction[1].k = "str" THEN [status |-> "ValueError", value |-> None]
        ELSE [status |-> "ok", value |-> p.prediction[1]]

\* corrosion_predictor.predict_corrosion.  calls lists the candidates
\* model.predict was called on, in order; getattr(model, "n_features_in_",
\* None) is None for a model without the attribute.
predict_corrosion(model, features) ==
    LET matching == SelectSeq(<<"full", "spectrum", "env">>,
                       LAMBDA key : /\ "n_features_in_" \in DOMAIN model
                                    /\ features[key].shape[2] = model.n_features_in_)
    IN  IF Len(matching) > 0
        THEN LET a == predict_first(model, features[matching[1]])
             IN  [status |-> a.status, value |-> a.value, calls |-> <<matching[1]>>]
        ELSE LET a == predict_first(model, features["full"])
                 b == predict_first(model, features["spectrum"])
             IN  IF a.status # "ValueError"
                 THEN [status |-> a.status, value |-> a.value, calls |-> <<"full">>]
                 ELSE [status |-> b.status, value |-> b.value,
                       calls |-> <<"full", "spectrum">>]

\* The corrosion rates: the multiples of 0.05 from -0.1 to 0.6, +inf, nan.
Rates == {Lin(n, 20) : n \in (-2)..12} \cup {Inf, NaN}

\* The regressors of the uploaded pickles: sklearn's raise ValueError for a
\* row that has not n_features_in_ features; other objects with a predict
\* method accept and raise what they like and need not have the attribute.
Predictions == {<<Lin(3, 10)>>, <<Lin(1, 20), Lin(3, 10)>>, <<Text>>, <<>>}
Regressors ==
    {[predict |-> [accepts |-> acc, raises |-> err, returns |-> ret]] :
        acc \in {{}, {2}, {11}, {13}, {2, 13}}, err \in {"ValueError", "TypeError"},
        ret \in Predictions}
    \cup {[predict |-> [accepts |-> acc, raises |-> err, returns |-> ret],
           n_features_in_ |-> n] :
        acc \in {{}, {2}, {11}, {13}, {2, 13}}, err \in {"ValueError", "TypeError"},
        ret \in Predictions, n \in {2, 5, 11, 13}}
ModelFiles ==
    {CorruptFile, [object |-> [n_estimators |-> 300]]} \cup {[object |-> m] : m \in Regressors}

\* The spectra handed to build_feature_vector: rows of 0, 2 and 11 features
\* and a table of 2 rows and 2 columns.
SpectrumRow(w) == as_row([j \in 1..w |-> Lin(100 + j, 1)])
Spectra ==
    {SpectrumRow(0), SpectrumRow(2), SpectrumRow(11),
     ndarray(<<2, 2>>, [t \in Indices(<<2, 2>>) |-> Lin(10 * t[1] + t[2], 1)])}

CallLoadModel ==
    /\ call.fn = "none"
    /\ \E file_buffer \in ModelFiles :
          /\ call' = [fn |-> "load_model", file_buffer |-> file_buffer]
          /\ result' = load_model(file_buffer)
    /\ UNCHANGED <<rng, app>>

CallLoadSpectrum ==
    /\ call.fn = "none"
    /\ \E file_buffer \in CsvFiles :
          /\ call' = [fn |-> "load_spectrum", file_buffer |-> file_buffer]
          /\ result' = load_spectrum(file_buffer)
    /\ UNCHANGED <<rng, app>>

\* The prediction page hands any uploaded .mat file to load_mat_spectrum
\* (app.py lines 1056-1057).
CallLoadMatSpectrum ==
    /\ call.fn = "none"
    /\ \E sh \in FileShapes :
          \E mat \in {MatFile(1, sh[1], sh[2], sh[3], Gen(0))} :
          \E file_buffer \in {mat} \cup OddMatFiles(mat) :
             /\ call' = [fn |-> "load_mat_spectrum", file_buffer |-> file_buffer]
             /\ result' = load_mat_spectrum(file_buffer)
    /\ UNCHANGED <<rng, app>>

CallBuildFeatureVector ==
    /\ call.fn = "none"
    /\ \E spectrum \in Spectra,
          env \in {<<Lin(25, 1), Lin(1, 1), Lin(7, 1), Lin(0, 1), Lin(0, 1), Lin(0, 1)>>,
                   <<Lin(60, 1), Lin(10, 1), Lin(5, 1), Lin(200, 1), Lin(3, 1), Lin(12, 1)>>},
          material \in {MATERIAL_TYPES[i] : i \in 1..Len(MATERIAL_TYPES)}
                       \cup {"Titanium", "carbon steel"} :
          /\ call' = [fn |-> "build_feature_vector", spectrum |-> spectrum,
                      material |-> material, temperature |-> env[1],
                      pressure |-> env[2], ph |-> env[3], sulfur |-> env[4],
                      flow_velocity |-> env[5], service_years |-> env[6]]
          /\ result' = build_feature_vector(spectrum, material, env[1], env[2],
                                            env[3], env[4], env[5], env[6])
    /\ UNCHANGED <<rng, app>>

\* The features are those of the prediction page: a spectrum with the
\* placeholder environment of a carbon steel.
CallPredictCorrosion ==
    /\ call.fn = "none"
    /\ \E model \in Regressors, w \in {0, 2, 11} :
          \E features \in {build_feature_vector(SpectrumRow(w), "Carbon Steel",
                              Lin(25, 1), Lin(1, 1), Lin(7, 1), Lin(0, 1),
                              Lin(0, 1), Lin(0, 1))} :
             /\ call' = [fn |-> "predict_corrosion", model |-> model,
                         features |-> features]
             /\ result' = predict_corrosion(model, features)
    /\ UNCHANGED <<rng, app>>

CallClassifyRisk ==
    /\ call.fn = "none"
    /\ \E corrosion_rate \in Rates :
          /\ call' = [fn |-> "classify_risk", corrosion_rate |-> corrosion_rate]
          /\ result' = classify_risk(corrosion_rate)
    /\ UNCHANGED <<rng, app>>

PredictNext ==
    \/ CallLoadModel \/ CallLoadSpectrum \/ CallLoadMatSpectrum
    \/ CallBuildFeatureVector \/ CallPredictCorrosion \/ CallClassifyRisk
    \/ Return

PredictSpec == LoadInit /\ [][PredictNext]_vars

(***************************************************************************)
(* The dashboard: Streamlit runs the script from the top at every          *)
(* interaction; the branch of the selected page runs with the current      *)
(* values of its widgets, and a button is true in the run of its press     *)
(* only.                                                                   *)
(***************************************************************************)
\* What the modules define at their top level.
Modules ==
    [eis_simulation |->
        {"F_range", "Z_R", "Z_Q", "Z_W", "log_rand", "lin_rand", "genZR", "genZQ",
         "genZW", "CIRCUIT_INFO", "sim_circuit", "_sim_cir1", "_sim_cir2",
         "_sim_cir3", "_sim_cir4", "_sim_cir5", "arrange_data", "export_data"},
     corrosion_predictor |->
        {"RISK_THRESHOLDS", "classify_risk", "load_model", "load_spectrum",
         "load_mat_spectrum", "ENV_FEATURES", "MATERIAL_TYPES", "encode_material",
         "build_feature_vector", "predict_corrosion", "create_gauge_chart",
         "get_env_ranges"}]

Import(module, name, alias) == [module |-> module, name |-> name, alias |-> alias]

\* The from ... import statement at the head of each page's branch (the
\* training page imports inside its button handler).
PageImports ==
    [p \in 1..4 |->
        CASE p = 1 -> {Import("eis_simulation", n, n) :
                          n \in {"F_range", "sim_circuit", "CIRCUIT_INFO", "export_data"}}
          [] p = 2 -> {}
          [] p = 3 -> {Import("corrosion_predictor", "load_model", "cp_load_model")}
                      \cup {Import("corrosion_predictor", n, n) :
                               n \in {"load_spectrum", "load_mat_spectrum",
                                      "build_feature_vector", "predict_corrosion",
                                      "classify_risk", "create_gauge_chart"}}
          [] p = 4 -> {Import("corrosion_predictor", n, n) :
                          n \in {"classify_risk", "create_gauge_chart", "get_env_ranges",
                                 "MATERIAL_TYPES", "train_env_model", "predict_from_env"}}]

\* The names of those modules a branch evaluates whenever it runs, button
\* or not: CIRCUIT_INFO in the simulator's sidebar (line 606), get_env_ranges
\* on the spectrum page (line 1170) and on the environmental page (line
\* 1434), train_env_model on the latter (line 1510).
PageUses ==
    [p \in 1..4 |->
        CASE p = 1 -> {"CIRCUIT_INFO"}
          [] p = 2 -> {}
          [] p = 3 -> {"get_env_ranges"}
          [] p = 4 -> {"get_env_ranges", "train_env_model"}]

\* The exception a run of page p's branch ends in: ModuleNotFoundError (an
\* ImportError) when the module of an import is in no directory of the
\* search path, ImportError when an imported name is not defined by its
\* module, NameError when a name is evaluated that the branch has not
\* bound.  ModuleDirs is the directory of each module, relative to app.py.
render(p) ==
    LET ModuleDirs == [eis_simulation |-> "utils", corrosion_predictor |-> ".",
                       ml_model |-> "."]
        notfound == {i \in PageImports[p] : ModuleDirs[i.module] \notin sys_path}
        missing == {i \in PageImports[p] : i.name \notin Modules[i.module]}
        bound == {i.alias : i \in PageImports[p]}
        unresolved == {u \in PageUses[p] : u \notin bound}
    IN  IF notfound # {} THEN "ModuleNotFoundError"
        ELSE IF missing # {} THEN "ImportError"
        ELSE IF unresolved # {} THEN "NameError"
        ELSE "none"

\* The values the simulator's controls take here: the initial ones with one
\* control at another value, which is any other circuit, 1 spectrum, 2
\* points, the lowest frequency bounds the inputs accept, a resistance and
\* an ideality range of one point, and the full Q and sigma ranges.
SidebarChoices ==
    {SidebarDefault}
    \cup {[SidebarDefault EXCEPT !.circuit_id = c] : c \in 2..5}
    \cup {[SidebarDefault EXCEPT !.size_number = 1],
          [SidebarDefault EXCEPT !.number_of_point = 2],
          [SidebarDefault EXCEPT !.freq_min = Pos(-4)],
          [SidebarDefault EXCEPT !.freq_max = Pos(0)],
          [SidebarDefault EXCEPT !.resistance_range = <<Pos(2), Pos(2)>>],
          [SidebarDefault EXCEPT !.alpha_range = <<Lin(9, 10), Lin(9, 10)>>],
          [SidebarDefault EXCEPT !.q_range = <<Pos(-7), Pos(-1)>>],
          [SidebarDefault EXCEPT !.sigma_range = <<Pos(-1), Pos(4)>>]}

\* F_range and sim_circuit with the values of the controls (app.py lines
\* 636-641), for every position of the controls and every state g of the
\* generator.
Simulate ==
    [controls \in SidebarChoices, g \in 0..(RngStates - 1) |->
        sim_circuit(controls.circuit_id, controls.size_number, controls.number_of_point,
                    F_range(controls.freq_min, controls.freq_max,
                            controls.number_of_point).angular_frequency,
                    controls.resistance_range, controls.alpha_range, controls.q_range,
                    controls.sigma_range, Gen(g))]

\* The simulator page storing a result at every run, pressed or not.
simulator_page_eager(state, controls, generate_btn, sim) ==
    LET grid == F_range(controls.freq_min, controls.freq_max, controls.number_of_point)
    IN  [sim_result |->
            [Zsum |-> array(sim.Zsum, controls.number_of_point),
             Zparam |-> array(sim.Zparam, Len(sim.Zparam[1])),
             frequency |-> grid.frequency_Hz,
             angular_frequency |-> grid.angular_frequency,
             circuit_id |-> controls.circuit_id,
             size_number |-> controls.size_number,
             number_of_point |-> controls.number_of_point]]

\* One run of the simulator page (app.py lines 634-650): st.session_state
\* after it.  sim is what sim_circuit returns for the controls.
simulator_page(state, controls, generate_btn, sim) ==
    LET grid == F_range(controls.freq_min, controls.freq_max, controls.number_of_point)
    IN  IF generate_btn
        THEN [sim_result |->
                [Zsum |-> array(sim.Zsum, controls.number_of_point),
                 Zparam |-> array(sim.Zparam, Len(sim.Zparam[1])),
                 frequency |-> grid.frequency_Hz,
                 angular_frequency |-> grid.angular_frequency,
                 circuit_id |-> controls.circuit_id,
                 size_number |-> controls.size_number,
                 number_of_point |-> controls.number_of_point]]
        ELSE state

\* What a run of the simulator page shows: the overview of the circuits
\* when nothing is stored; the stored result otherwise (lines 652-794).  The
\* slider that selects the spectrum to highlight is created with the
\* bounds 0 and size_number - 1 (lines 695-699): for a result of one
\* spectrum the two are equal, st.slider raises StreamlitAPIException and
\* the run ends after the metrics and the equation, before the plots, the
\* table and the downloads.
simulator_view(state) ==
    IF "sim_result" \notin DOMAIN state
    THEN [exception |-> "none", elements |-> {"overview"}]
    ELSE IF state["sim_result"].size_number = 1
    THEN [exception |-> "StreamlitAPIException", elements |-> {"metrics", "equation"}]
    ELSE [exception |-> "none", elements |-> {"sim_result"}]

\* The radio selects another page: its branch runs; the controls of the
\* page that is left are gone and start again from their defaults.
SelectPage ==
    /\ \E p \in 1..4 :
          /\ Pages[p] # page
          /\ page' = Pages[p]
          /\ screen' = IF p = 1 /\ render(p) = "none" THEN simulator_view(session_state)
                       ELSE [exception |-> render(p), elements |-> {}]
    /\ sidebar' = SidebarDefault
    /\ UNCHANGED <<rng, call, result, session_state, uploaded_file, tmp_files, sys_path>>

\* One control of the simulator's sidebar is moved: the page runs with
\* generate_btn false.  The controls exist when the import at the head of
\* the branch has succeeded.
ChangeSidebar ==
    /\ page = Pages[1]
    /\ render(1) = "none"
    /\ \E controls \in SidebarChoices :
          /\ Cardinality({f \in DOMAIN controls : controls[f] # sidebar[f]}) = 1
          /\ sidebar' = controls
          /\ session_state' =
                simulator_page(session_state, controls, FALSE, Simulate[controls, rng])
          /\ screen' = simulator_view(session_state')
    /\ UNCHANGED <<rng, call, result, page, uploaded_file, tmp_files, sys_path>>

\* Generate Spectra is pressed: the page runs with generate_btn true.
PressGenerate ==
    /\ page = Pages[1]
    /\ render(1) = "none"
    /\ \E sim \in {Simulate[sidebar, rng]} :
          /\ session_state' = simulator_page(session_state, sidebar, TRUE, sim)
          /\ rng' = sim.rng.x
    /\ screen' = simulator_view(session_state')
    /\ UNCHANGED <<call, result, page, sidebar, uploaded_file, tmp_files, sys_path>>

\* Generate Spectra is pressed and another interaction arrives while the
\* simulation runs (lines 635-641): Streamlit ends the run where the spinner
\* is left, before the store of line 643, and runs the script for the
\* pending interaction.  The numbers of the first run are drawn and nothing
\* of it is stored.  The interaction is a moved control, another page, a
\* widget of the page that is no control of the simulation (the spectrum
\* slider, a download), or a second press of Generate, whose run simulates
\* from the generator state the first one left and stores its result.
InterruptGenerate ==
    /\ page = Pages[1]
    /\ render(1) = "none"
    /\ \E sim \in {Simulate[sidebar, rng]} :
          \/ /\ rng' = sim.rng.x
             /\ \E controls \in SidebarChoices :
                   /\ Cardinality({f \in DOMAIN controls : controls[f] # sidebar[f]}) = 1
                   /\ sidebar' = controls
             /\ page' = page
             /\ session_state' = session_state
             /\ screen' = simulator_view(session_state)
          \/ /\ rng' = sim.rng.x
             /\ \E p \in 2..4 :
                   /\ page' = Pages[p]
                   /\ screen' = [exception |-> render(p), elements |-> {}]
             /\ sidebar' = SidebarDefault
             /\ session_state' = session_state
          \/ /\ rng' = sim.rng.x
             /\ UNCHANGED <<page, sidebar, session_state>>
             /\ screen' = simulator_view(session_state)
          \/ \E again \in {Simulate[sidebar, sim.rng.x]} :
                /\ rng' = again.rng.x
                /\ session_state' = simulator_page(session_state, sidebar, TRUE, again)
                /\ screen' = simulator_view(session_state')
                /\ UNCHANGED <<page, sidebar>>
    /\ UNCHANGED <<call, result, uploaded_file, tmp_files, sys_path>>

\* A session of the dashboard: the script has run once, on the simulator
\* page.  The module search path of the process is the directory of the
\* script, with or without the directory utils, which nothing in the
\* repository adds (a deployment does, or does not).
AppInit ==
    /\ rng \in 0..(RngStates - 1)
    /\ call = NoCall
    /\ result = NoResult
    /\ AppStart
    /\ sys_path \in {{"."}, {".", "utils"}}
    /\ screen = IF render(1) = "none" THEN simulator_view(session_state)
                ELSE [exception |-> render(1), elements |-> {}]

AppNext == SelectPage \/ ChangeSidebar \/ PressGenerate \/ InterruptGenerate

AppSpec == AppInit /\ [][AppNext]_vars

(***************************************************************************)
(* The training page.                                                      *)
(***************************************************************************)
\* The temporary files a session may leave on disk before the model stops
\* following it.
MaxTmpFiles == 2

\* tempfile.NamedTemporaryFile(delete=False, suffix=...): a file of a name
\* that is not in use.
NamedTemporaryFile(files, suffix) == [suffix |-> suffix, name |-> Cardinality(files) + 1]

\* model.fit(x_train, y_train) of the multi-output gradient boosting
\* regressor: sklearn raises ValueError for rows of no feature.
fit(x_train, y_train) ==
    IF x_train.shape[2] = 0 THEN [status |-> "ValueError", model |-> None]
    ELSE [status |-> "ok",
          model |-> [n_features_in_ |-> x_train.shape[2], n_outputs |-> y_train.shape[2]]]

\* The handler of the Start Training button (app.py lines 891-964): the
\* screen and the temporary files after it.  The copy of the upload is
\* created before uploaded_file.getvalue() is evaluated, which raises
\* AttributeError on None, and os.unlink(tmp_path) follows the return of
\* load_and_preprocess_data; the model file is unlinked inside its with
\* block after joblib.dump and the read (POSIX: an open file can be
\* unlinked).  The row of metrics (lines 915-922) is shown between the load
\* and the fit.  except Exception takes every error to st.error and
\* st.exception (Failed, lines 962-964).
start_training(file, test_size, order, files) ==
    LET Failed == [exception |-> "none", elements |-> {"error", "exception"}]
        tmp == NamedTemporaryFile(files, ".mat")
        copied == files \cup {tmp}
    IN  IF file = None THEN [screen |-> Failed, tmp_files |-> copied]
        ELSE LET data == load_and_preprocess_data(file, test_size, FALSE, order)
                 fitted == fit(reshape(data.x_train), data.y_train)
                 tmp_model == NamedTemporaryFile(copied \ {tmp}, ".pkl")
             IN  IF data.status # "ok" THEN [screen |-> Failed, tmp_files |-> copied]
                 ELSE IF fitted.status # "ok"
                 THEN [screen |-> [exception |-> "none",
                                   elements |-> {"metrics"} \cup Failed.elements],
                       tmp_files |-> copied \ {tmp}]
                 ELSE [screen |-> [exception |-> "none",
                                   elements |-> {"metrics", "success", "download_button"}],
                       tmp_files |-> ((copied \ {tmp}) \cup {tmp_model}) \ {tmp_model}]

\* The files offered to the uploader: simulated training files of every
\* shape, with the whole parameter matrix or a single parameter, and files
\* that are not in the training format.
TrainingFiles ==
    UNION {LET mat == MatFile(cid, sh[1], sh[2], sh[3], Gen(0))
           IN  {mat, SingleParameter(mat)} \cup OddMatFiles(mat) :
              cid \in 1..5, sh \in FileShapes}

\* A file is put into the uploader, or taken out of it.
UploadFile ==
    /\ page = Pages[2]
    /\ \E file \in TrainingFiles \cup {None} :
          /\ file # uploaded_file
          /\ uploaded_file' = file
    /\ screen' = Blank
    /\ UNCHANGED <<rng, call, result, page, sidebar, session_state, tmp_files, sys_path>>

\* Start Training is pressed, with or without a file in the uploader; order
\* is the shuffle train_test_split makes of the file's samples.
PressStartTraining ==
    /\ page = Pages[2]
    /\ Cardinality(tmp_files) < MaxTmpFiles
    /\ \E test_size \in {<<1, 5>>},
          order \in Orders(IF "x_data" \in DOMAIN uploaded_file
                           THEN uploaded_file.x_data.shape[1] ELSE 0) :
          \E run \in {start_training(uploaded_file, test_size, order, tmp_files)} :
             /\ screen' = run.screen
             /\ tmp_files' = run.tmp_files
    /\ UNCHANGED <<rng, call, result, page, sidebar, session_state, uploaded_file, sys_path>>

\* Start Training is pressed and another widget of the page is moved before
\* the handler reaches st.spinner (line 904): Streamlit ends the run there
\* with a control exception that except Exception does not catch, after the
\* copy of lines 900-902 and before os.unlink; with nothing uploaded the
\* run ends at st.error instead.  The pending run has the button false and
\* shows nothing of the handler.
InterruptTraining ==
    /\ page = Pages[2]
    /\ Cardinality(tmp_files) < MaxTmpFiles
    /\ tmp_files' = tmp_files \cup {NamedTemporaryFile(tmp_files, ".mat")}
    /\ screen' = Blank
    /\ UNCHANGED <<rng, call, result, page, sidebar, session_state, uploaded_file, sys_path>>

\* Another widget of the training page is used (the hyperparameters of
\* lines 852-860, the download button): the script runs with the Start
\* Training button false and the output of the handler is gone.
RerunTrainingPage ==
    /\ page = Pages[2]
    /\ screen' = Blank
    /\ UNCHANGED <<rng, call, result, page, sidebar, session_state, uploaded_file,
                   tmp_files, sys_path>>

\* The session has gone to the training page.
TrainInit ==
    /\ rng = 0
    /\ call = NoCall
    /\ result = NoResult
    /\ page = Pages[2]
    /\ sidebar = SidebarDefault
    /\ session_state = [key \in {} |-> None]
    /\ uploaded_file = None
    /\ tmp_files = {}
    /\ screen = Blank
    /\ sys_path \in {{"."}, {".", "utils"}}

TrainNext == UploadFile \/ PressStartTraining \/ InterruptTraining \/ RerunTrainingPage

TrainSpec == TrainInit /\ [][TrainNext]_vars

(***************************************************************************)
(* Properties.                                                             *)
(***************************************************************************)
SimCalled == call.fn = "sim_circuit"
SimReturned == SimCalled /\ call.circuit_id \in 1..5

\* C1: sim_circuit called with a circuit_id outside 1..5 raises the
\* unknown-circuit ValueError: it returns no (Zsum, Zparam) pair, simulates
\* no other topology, and has drawn no random number when it fails.
C1_UnknownCircuitFails ==
    (SimCalled /\ call.circuit_id \notin 1..5) =>
        /\ result.status = "ValueError"
        /\ result.Zsum = <<>>
        /\ result.Zparam = <<>>
        /\ result.rng.drawn = 0
        /\ result.rng.x = rng

C1_Witness ==
    /\ SimCalled
    /\ call.circuit_id = 6
    /\ call.size_number = 2
    /\ result.status = "ValueError"

\* The number of parameter columns the specification lists per circuit.
DocumentedColumns == <<4, 7, 5, 8, 8>>

\* C2: for every circuit 1..5 sim_circuit returns a spectrum matrix of shape
\* (size_number, number_of_point) and a parameter matrix of shape
\* (size_number, P), P = 4, 7, 5, 8, 8 = the length of the circuit's
\* CIRCUIT_INFO params list.
C2_Shapes ==
    SimReturned =>
        /\ result.status = "ok"
        /\ Len(result.Zsum) = call.size_number
        /\ \A i \in 1..Len(result.Zsum) : Len(result.Zsum[i]) = call.number_of_point
        /\ Len(result.Zparam) = call.size_number
        /\ \A i \in 1..Len(result.Zparam) :
              /\ Len(result.Zparam[i]) = DocumentedColumns[call.circuit_id]
              /\ Len(result.Zparam[i]) = Len(CIRCUIT_INFO[call.circuit_id].params)

C2_Witness ==
    /\ SimReturned
    /\ call.circuit_id = 4
    /\ call.size_number = 2
    /\ call.number_of_point = 3
    /\ Len(result.Zparam) = 2
    /\ Len(result.Zparam[2]) = 8
    /\ Len(result.Zsum[2]) = 3

\* The parameter order the specification documents per circuit.
DocumentedParams ==
    << <<"R1", "R2", "a1", "Q1">>,
       <<"R1", "R2", "R3", "a1", "Q1", "a2", "Q2">>,
       <<"R1", "R2", "a1", "Q1", "sigma">>,
       <<"R1", "R2", "R3", "a1", "Q1", "a2", "Q2", "sigma">>,
       <<"R1", "R2", "R3", "a1", "Q1", "a2", "Q2", "sigma">> >>

\* C3: column j of the parameter matrix holds the element named at position
\* j of the circuit's documented parameter list, whatever the order the
\* elements were drawn in, and the CSV export labels the columns with that
\* list.
C3_ColumnOrder ==
    SimReturned =>
        LET df == df_params(call.circuit_id, result.Zparam)
        IN  /\ df.columns = DocumentedParams[call.circuit_id]
            /\ \A i \in 1..Len(df.data) :
                  /\ Len(df.data[i]) = Len(df.columns)
                  /\ \A j \in 1..Len(df.columns) :
                        df.data[i][j] = result.elements[df.columns[j]][i]

\* Circuit 3 draws alpha1 and Q1 before R2: a state where the drawn order
\* and the column order differ in content.
C3_Witness ==
    /\ SimReturned
    /\ call.circuit_id = 3
    /\ call.size_number = 2
    /\ result.Zparam[2][2] = result.elements.R2[2]
    /\ result.Zparam[2][2] # result.elements.a1[2]
    /\ result.Zparam[2][4] = result.elements.Q1[2]
    /\ result.Zparam[2][4] # result.elements.R2[2]

\* The value a row of the parameter matrix stores under an element's name.
Stored(cid, row, name) ==
    row[CHOOSE j \in 1..Len(DocumentedParams[cid]) : DocumentedParams[cid][j] = name]

\* A || B = 1 / (1/A + 1/B).
Par(A, B) == CInv(CAdd(CInv(A), CInv(B)))

\* The documented composition of circuit cid at angular frequency w, from
\* the values stored in one row; a2name names the ideality factor the
\* second CPE is evaluated with.
Topology(cid, row, w, a2name) ==
    LET v(name) == Stored(cid, row, name)
        Zq1 == Z_Q(v("Q1"), v("a1"), w)
        Zq2 == Z_Q(v("Q2"), v(a2name), w)
        Zw == Z_W(v("sigma"), w)
    IN  CASE cid = 1 -> CAdd(v("R1"), Par(v("R2"), Zq1))
          [] cid = 2 -> CAdd(CAdd(v("R1"), Par(v("R2"), Zq1)), Par(v("R3"), Zq2))
          [] cid = 3 -> CAdd(v("R1"), Par(Zq1, CAdd(v("R2"), Zw)))
          [] cid = 4 -> CAdd(CAdd(v("R1"), Par(v("R2"), Zq1)), Par(Zq2, CAdd(v("R3"), Zw)))
          [] cid = 5 -> CAdd(v("R1"),
                             Par(CAdd(v("R2"), Par(CAdd(v("R3"), Zw), Zq2)), Zq1))

\* Row i of the spectrum is Topology of row i of the parameter matrix.
RowsGenerate(a2name) ==
    \A i \in 1..Len(result.Zsum) : \A k \in 1..Len(result.Zsum[i]) :
        result.Zsum[i][k] =
            Topology(call.circuit_id, result.Zparam[i], call.angular_frequency[k], a2name)

\* C4: row i of the spectrum is computed only from the values stored in row
\* i of the parameter matrix and the frequency grid, and every value stored
\* in row i is the value that generated row i (each CPE with its own stored
\* ideality factor).
C4_RowCorrespondence == SimReturned => RowsGenerate("a2")

TwoCPE == {2, 4, 5}
AlphaColumns(cid) ==
    {j \in 1..Len(DocumentedParams[cid]) : DocumentedParams[cid][j] \in {"a1", "a2"}}

\* C5: in circuits 2, 4 and 5 the second CPE is evaluated with alpha1; the
\* stored alpha2 is not an input of the spectrum: the spectrum is the same
\* whatever value stands in the alpha2 column.
C5_Alpha1Reused ==
    (SimReturned /\ call.circuit_id \in TwoCPE) =>
        /\ RowsGenerate("a1")
        /\ \A i \in 1..Len(result.Zsum) : \A k \in 1..Len(result.Zsum[i]) :
              \A r \in 1..Len(result.Zparam) : \A c \in AlphaColumns(call.circuit_id) :
                 LET j2 == CHOOSE j \in AlphaColumns(call.circuit_id) :
                              DocumentedParams[call.circuit_id][j] = "a2"
                     other == [result.Zparam[i] EXCEPT ![j2] = result.Zparam[r][c]]
                 IN  result.Zsum[i][k] =
                        Topology(call.circuit_id, other, call.angular_frequency[k], "a1")

\* A two-CPE spectrum whose stored alpha2 differs from the exponent used.
C5_Witness ==
    /\ SimReturned
    /\ call.circuit_id = 4
    /\ call.size_number = 2
    /\ Stored(4, result.Zparam[2], "a2") # Stored(4, result.Zparam[2], "a1")
    /\ result.Zsum[2][1] # Topology(4, result.Zparam[2], call.angular_frequency[1], "a2")

\* The range a named element is drawn from.
RangeOf(name) ==
    CASE name \in {"R1", "R2", "R3"} -> call.resistance_range
      [] name \in {"Q1", "Q2"} -> call.q_range
      [] name = "sigma" -> call.sigma_range
      [] OTHER -> call.alpha_range

Within(v, range) == LeVal(range[1], v) /\ LeVal(v, range[2])

\* C6: every R, Q and sigma of the parameter matrix lies within the
\* well-formed range given for its own kind; and log_rand(low, high, n)
\* with 0 < low < high returns n values, each within [low, high].
C6_LogRanges ==
    SimReturned =>
        /\ \A i \in 1..Len(result.Zparam) : \A j \in 1..Len(result.Zparam[i]) :
              LET name == DocumentedParams[call.circuit_id][j]
              IN  (name \notin {"a1", "a2"} /\ WellFormed(RangeOf(name))) =>
                      Within(result.Zparam[i][j], RangeOf(name))
        /\ \A range \in {call.resistance_range, call.q_range, call.sigma_range} :
              (WellFormed(range) /\ LtVal(range[1], range[2])) =>
                  LET x == log_rand(range[1], range[2], call.size_number, Gen(rng))
                  IN  /\ Len(x) = call.size_number
                      /\ \A j \in 1..Len(x) : Within(x[j], range)

\* v is a multiple of 10^-decimals.
HasDecimals(v, decimals) == (v.n * Pow10(decimals)) % v.d = 0

\* C7: every ideality factor of the parameter matrix is rounded to 3
\* decimals and lies within alpha_range [lo, hi], for every lo <= hi; the
\* first CPE is evaluated with that rounded value.
C7_AlphaRounded ==
    (SimReturned /\ LeVal(call.alpha_range[1], call.alpha_range[2])) =>
        /\ \A i \in 1..Len(result.Zparam) : \A j \in AlphaColumns(call.circuit_id) :
              /\ HasDecimals(result.Zparam[i][j], 3)
              /\ Within(result.Zparam[i][j], call.alpha_range)
        /\ RowsGenerate("a1")

FRangeCalled == call.fn = "F_range"
ValidGrid ==
    /\ call.initial_frequency.k = "pos"
    /\ call.last_frequency.k = "pos"
    /\ LtVal(call.initial_frequency, call.last_frequency)
    /\ call.number_of_point >= 2

\* C8: for 0 < f_min < f_max and N >= 2, F_range returns N frequencies,
\* strictly increasing from f_min to f_max, and N angular frequencies with
\* angular[i] = 2 pi freq[i].
C8_Grid ==
    (FRangeCalled /\ ValidGrid) =>
        LET f == result.frequency_Hz
            w == result.angular_frequency
            N == call.number_of_point
        IN  /\ result.status = "ok"
            /\ Len(f) = N
            /\ Len(w) = N
            /\ \A i \in 1..(N - 1) : LtVal(f[i], f[i + 1])
            /\ EqVal(f[1], call.initial_frequency)
            /\ EqVal(f[N], call.last_frequency)
            /\ \A i \in 1..N : w[i] = TwoPiTimes(f[i])

C8_Witness ==
    /\ FRangeCalled
    /\ call.initial_frequency = Pos(-2)
    /\ call.last_frequency = Pos(6)
    /\ call.number_of_point = 3
    /\ Len(result.frequency_Hz) = 3
    /\ LtVal(result.frequency_Hz[1], result.frequency_Hz[2])
    /\ LtVal(result.frequency_Hz[2], result.frequency_Hz[3])

\* C9: F_range fails with an error and returns no grid whenever f_min <= 0
\* or f_max <= f_min or n_points < 2.
C9_InvalidGridRejected ==
    (FRangeCalled /\ ~ValidGrid) =>
        /\ result.status # "ok"
        /\ result.frequency_Hz = <<>>
        /\ result.angular_frequency = <<>>

Malformed(range) == ~WellFormed(range)

\* C10: a sim_circuit request whose resistance, Q or sigma range is malformed
\* (a non-positive bound, or min > max) is rejected with an error before any
\* random number is drawn, and returns no matrices.
C10_MalformedRangeRejected ==
    (SimCalled /\ (\/ Malformed(call.resistance_range)
                   \/ Malformed(call.q_range)
                   \/ Malformed(call.sigma_range))) =>
        /\ result.status # "ok"
        /\ result.rng.drawn = 0
        /\ result.Zsum = <<>>
        /\ result.Zparam = <<>>

\* C11: Z_Q fails when Q <= 0 or w <= 0, Z_W fails when w <= 0, and neither
\* changes the alpha it is given.
C11_ElementDomainErrors ==
    /\ call.fn = "Z_Q" =>
          /\ (SignOf(call.non_ideal_capacitance) \in {"zero", "neg"}
                \/ SignOf(call.angular_frequency) \in {"zero", "neg"})
               => result.status # "ok"
          /\ result.status = "ok" => result.value.args[2] = call.ideality_factor
    /\ call.fn = "Z_W" =>
          (SignOf(call.angular_frequency) \in {"zero", "neg"} => result.status # "ok")

\* The impedance of a named element of spectrum i at frequency index k, as
\* the generator computed it from the element's drawn value.
ElementImpedance(name, i, k) ==
    LET el == result.elements
        w == call.angular_frequency[k]
    IN  CASE name \in {"R1", "R2", "R3"} -> Z_R(el[name][i])
          [] name = "Q1" -> Z_Q(el.Q1[i], el.a1[i], w)
          [] name = "Q2" -> Z_Q(el.Q2[i], el.a1[i], w)
          [] name = "W" -> Z_W(el.sigma[i], w)

\* The circuit table: the composition of each circuit from its elements.
Composition(cid, i, k) ==
    LET Z(name) == ElementImpedance(name, i, k)
    IN  CASE cid = 1 -> CAdd(Z("R1"), Par(Z("R2"), Z("Q1")))
          [] cid = 2 -> CAdd(CAdd(Z("R1"), Par(Z("R2"), Z("Q1"))), Par(Z("R3"), Z("Q2")))
          [] cid = 3 -> CAdd(Z("R1"), Par(Z("Q1"), CAdd(Z("R2"), Z("W"))))
          [] cid = 4 -> CAdd(CAdd(Z("R1"), Par(Z("R2"), Z("Q1"))),
                             Par(Z("Q2"), CAdd(Z("R3"), Z("W"))))
          [] cid = 5 -> CAdd(Z("R1"),
                             Par(CAdd(Z("R2"), Par(CAdd(Z("R3"), Z("W")), Z("Q2"))), Z("Q1")))

\* C12: for each circuit 1..5 every Zsum[i][k] is the series/parallel
\* composition, given by the circuit table, of the element impedances of
\* spectrum i at frequency k, with A || B = 1 / (1/A + 1/B).
C12_Topologies ==
    SimReturned =>
        /\ Len(result.Zsum) = call.size_number
        /\ \A i \in 1..call.size_number :
              /\ Len(result.Zsum[i]) = call.number_of_point
              /\ \A k \in 1..call.number_of_point :
                    result.Zsum[i][k] = Composition(call.circuit_id, i, k)

\* Circuit 1 with alpha1 = 0.9: Zsum = R1 + 1 / (1/R2 + 1/Z_cpe).
C12_Witness ==
    /\ SimReturned
    /\ call.circuit_id = 1
    /\ EqVal(result.Zparam[1][3], Lin(9, 10))
    /\ result.Zparam[1][1] # result.Zparam[1][2]
    /\ result.Zsum[1][2] =
          CAdd(result.Zparam[1][1],
               CInv(CAdd(CInv(result.Zparam[1][2]),
                         CInv(Z_Q(result.Zparam[1][4], result.Zparam[1][3],
                                  call.angular_frequency[2])))))

\* The angle, in degrees, of the point (re, im) of the plane: arctan(im/re)
\* in the right half plane, 180 degrees away from it in the left one.
QuadrantDegrees(re, im) ==
    CASE re > 0 -> [k |-> "deg", tan |-> divide(Lin(im, 1), Lin(re, 1)), off |-> 0]
      [] re < 0 /\ im >= 0 -> [k |-> "deg", tan |-> divide(Lin(im, 1), Lin(re, 1)), off |-> 180]
      [] re < 0 /\ im < 0 -> [k |-> "deg", tan |-> divide(Lin(im, 1), Lin(re, 1)), off |-> -180]
      [] re = 0 /\ im > 0 -> [k |-> "deg", tan |-> PInf, off |-> 0]
      [] re = 0 /\ im < 0 -> [k |-> "deg", tan |-> NInf, off |-> 0]
      [] OTHER -> [k |-> "deg", tan |-> Fin(0, 1), off |-> 0]

DownloadCalled == call.fn = "download_mat"

\* C13: the .mat x_data has shape (n_samples, 3, n_points); channel 0 is
\* Im(Z), not negated; channel 1 is the phase in degrees of arctan2(Im, Re),
\* the angle of Z in its own quadrant also when Re(Z) < 0; channel 2 is |Z|.
C13_MatChannels ==
    DownloadCalled =>
        LET Z == call.Zsum
            x == result.x_data
        IN  /\ x.shape = <<Z.shape[1], 3, Z.shape[2]>>
            /\ DOMAIN x.at = Indices(x.shape)
            /\ \A i \in 1..Z.shape[1] : \A k \in 1..Z.shape[2] :
                  LET z == Z.at[<<i, k>>]
                  IN  IF IsTerm(z)
                      THEN /\ x.at[<<i, 1, k>>] = imag(z)
                           /\ x.at[<<i, 2, k>>] = degrees(arctan2(imag(z), real(z)))
                           /\ x.at[<<i, 3, k>>] = absolute(z)
                      ELSE /\ x.at[<<i, 1, k>>] = Lin(z.im, 1)
                           /\ x.at[<<i, 2, k>>] = QuadrantDegrees(z.re, z.im)
                           /\ x.at[<<i, 3, k>>].k = "sqrt"
                           /\ x.at[<<i, 3, k>>].n = z.re * z.re + z.im * z.im

\* A downloaded spectrum with a point in the second quadrant: its phase is
\* 180 degrees above arctan(Im/Re), its imaginary channel is positive.
C13_Witness ==
    /\ DownloadCalled
    /\ call.Zsum.at[<<1, 1>>] = Cx(-3, 2)
    /\ result.x_data.at[<<1, 1, 1>>] = Lin(2, 1)
    /\ result.x_data.at[<<1, 2, 1>>] = [k |-> "deg", tan |-> Fin(-2, 3), off |-> 180]
    /\ result.x_data.at[<<1, 3, 1>>].n = 13

ArrangeCalled == call.fn = "arrange_data"

\* The dashboard's encoding of the spectrum matrix arrange_data was given.
DashboardEncoding == download_mat(call.Circuit, <<>>).x_data

\* C14: the export encoder (arrange_data) and the dashboard's .mat encoder
\* agree on the imaginary and magnitude channels for every input and on the
\* phase channel where Re(Z) > 0; at every entry with Re(Z) < 0 the export
\* phase arctan(Im/Re) is 180 degrees away from the dashboard's arctan2.
C14_EncodersDiffer ==
    ArrangeCalled =>
        LET Z == call.Circuit
            e == result.x
            m == DashboardEncoding
        IN  /\ result.status = "ok"
            /\ e.shape = m.shape
            /\ \A i \in 1..Z.shape[1] : \A k \in 1..Z.shape[2] :
                  /\ e.at[<<i, 1, k>>] = m.at[<<i, 1, k>>]
                  /\ e.at[<<i, 3, k>>] = m.at[<<i, 3, k>>]
                  /\ Z.at[<<i, k>>].re > 0 => e.at[<<i, 2, k>>] = m.at[<<i, 2, k>>]
                  /\ Z.at[<<i, k>>].re < 0 =>
                        /\ e.at[<<i, 2, k>>].tan = m.at[<<i, 2, k>>].tan
                        /\ Abs(e.at[<<i, 2, k>>].off - m.at[<<i, 2, k>>].off) = 180

\* An exported spectrum with entries in the left half plane (both signs of
\* Im) and in the right half plane.
C14_Witness ==
    /\ ArrangeCalled
    /\ call.Circuit.shape = <<1, 3>>
    /\ call.Circuit.at[<<1, 1>>] = Cx(3, -1)
    /\ call.Circuit.at[<<1, 2>>] = Cx(-3, 2)
    /\ call.Circuit.at[<<1, 3>>] = Cx(-1, -2)
    /\ result.x.at[<<1, 2, 1>>] = DashboardEncoding.at[<<1, 2, 1>>]
    /\ result.x.at[<<1, 2, 2>>] = [k |-> "deg", tan |-> Fin(-2, 3), off |-> 0]
    /\ DashboardEncoding.at[<<1, 2, 2>>] = [k |-> "deg", tan |-> Fin(-2, 3), off |-> 180]
    /\ result.x.at[<<1, 2, 3>>] = [k |-> "deg", tan |-> Fin(2, 1), off |-> 0]
    /\ DashboardEncoding.at[<<1, 2, 3>>] = [k |-> "deg", tan |-> Fin(2, 1), off |-> -180]

\* What sim_circuit returned to the Generate handler before the download.
Generated ==
    sim_circuit(call.circuit_id, call.size_number, call.number_of_point,
                call.angular_frequency, DefaultResistance, DefaultAlpha, DefaultQ,
                DefaultSigma, Gen(call.generator))

\* C17: the y_data written to the .mat file is the parameter matrix that
\* sim_circuit returned, every column (the ideality factors included) with
\* the value sim_circuit gave it: no training-time scaling is applied.
C17_TargetsUnscaled ==
    DownloadCalled =>
        /\ result.y_data.shape = <<call.size_number, DocumentedColumns[call.circuit_id]>>
        /\ DOMAIN result.y_data.at = Indices(result.y_data.shape)
        /\ \A i \in 1..call.size_number :
              \A j \in 1..DocumentedColumns[call.circuit_id] :
                 result.y_data.at[<<i, j>>] = Generated.Zparam[i][j]

\* A download of a circuit-4 result: 8 columns, alpha1 in [0.8, 1] and Q1 in
\* [1e-5, 1e-3] as drawn.
C17_Witness ==
    /\ DownloadCalled
    /\ call.circuit_id = 4
    /\ call.size_number = 2
    /\ result.y_data.shape = <<2, 8>>
    /\ Within(result.y_data.at[<<2, 4>>], DefaultAlpha)
    /\ Within(result.y_data.at[<<2, 5>>], DefaultQ)
    /\ result.y_data.at[<<2, 5>>] = Generated.elements.Q1[2]

PreprocessCalled == call.fn = "load_and_preprocess_data"
SpectrumCalled == call.fn = "load_mat_spectrum"

\* w is v * -1.
IsNegationOf(w, v) ==
    IF IsTerm(v) \/ v.k # "lin" THEN w = minus(v)
    ELSE w.k = "lin" /\ AddR(w, v).n = 0

\* aug is x_data (n, C, N) transposed to (n, N, C) and widened to
\* (n, N, 2C): channel c as in x_data, channel C + c its negation.
Augments(aug, x_data) ==
    LET n == x_data.shape[1]
        C == x_data.shape[2]
        N == x_data.shape[3]
    IN  /\ aug.shape = <<n, N, 2 * C>>
        /\ DOMAIN aug.at = Indices(aug.shape)
        /\ \A i \in 1..n : \A k \in 1..N : \A c \in 1..C :
              /\ aug.at[<<i, k, c>>] = x_data.at[<<i, c, k>>]
              /\ IsNegationOf(aug.at[<<i, k, C + c>>], x_data.at[<<i, c, k>>])

\* C15: for an x_data of shape (n, C, N) both preprocessors produce the
\* tensor of shape (n, N, 2C) whose channels 0..C-1 are the transposed input
\* and whose channel C + c is the negation of channel c; the training path
\* hands the rows of that tensor to its two sets.
C15_Augmentation ==
    /\ PreprocessCalled =>
          /\ Augments(result.new_x, call.mat.x_data)
          /\ result.status = "ok" =>
                LET n_test == result.x_test.shape[1]
                IN  /\ result.x_train.shape[1] + n_test = call.mat.x_data.shape[1]
                    /\ result.x_test = take(result.new_x, SubSeq(call.order, 1, n_test))
                    /\ result.x_train =
                          take(result.new_x, SubSeq(call.order, n_test + 1, Len(call.order)))
    /\ SpectrumCalled => Augments(result.augmented, call.mat.x_data)

\* A training file of 2 samples, 3 channels and 2 points: channel 3 + c of
\* the tensor is minus channel c, read at the transposed position.
C15_Witness ==
    /\ PreprocessCalled
    /\ call.mat.x_data.shape = <<2, 3, 2>>
    /\ call.mat.x_data.at[<<2, 1, 1>>] = Lin(7, 1)
    /\ call.mat.x_data.at[<<2, 3, 2>>] = Lin(-12, 1)
    /\ result.status = "ok"
    /\ result.new_x.shape = <<2, 2, 6>>
    /\ result.new_x.at[<<2, 1, 1>>] = Lin(7, 1)
    /\ result.new_x.at[<<2, 1, 4>>] = Lin(-7, 1)
    /\ result.new_x.at[<<2, 2, 3>>] = Lin(-12, 1)
    /\ result.new_x.at[<<2, 2, 6>>] = Lin(12, 1)

\* The flattened row the training path builds for the first sample of the
\* file when the split shuffles the samples into the given order: the
\* trainer reshapes x_train and x_test to (rows, -1) (app.py lines 910-913).
TrainingRowOfFirstSample(mat, order) ==
    LET tr == load_and_preprocess_data(mat, <<1, 5>>, FALSE, order)
        pos == CHOOSE j \in 1..Len(order) : order[j] = 1
        n_test == tr.x_test.shape[1]
    IN  IF tr.status # "ok" THEN take(reshape(tr.new_x), <<1>>)
        ELSE IF pos <= n_test THEN take(reshape(tr.x_test), <<pos>>)
        ELSE take(reshape(tr.x_train), <<pos - n_test>>)

\* C16: the feature row load_mat_spectrum returns, of shape (1, N*2*C), is
\* entry for entry the flattened row the training path builds for sample 0
\* of the same x_data, and it is the row of the file cut down to its first
\* sample: the other samples are ignored.
C16_SameFeatureRow ==
    (SpectrumCalled /\ result.status = "ok") =>
        LET x_data == call.mat.x_data
            width == x_data.shape[3] * 2 * x_data.shape[2]
            first == [x_data |-> take(x_data, <<1>>), y_data |-> call.mat.y_data]
        IN  /\ result.sample.shape = <<1, width>>
            /\ DOMAIN result.sample.at = Indices(<<1, width>>)
            /\ \A order \in Orders(x_data.shape[1]) :
                  result.sample = TrainingRowOfFirstSample(call.mat, order)
            /\ result.sample = load_mat_spectrum(first).sample

\* A file of 2 samples, 3 channels, 2 points: 12 features, point by point,
\* the 3 channels then their negations, all of sample 0.
C16_Witness ==
    /\ SpectrumCalled
    /\ call.mat.x_data.shape = <<2, 3, 2>>
    /\ result.status = "ok"
    /\ result.sample.shape = <<1, 12>>
    /\ result.sample.at[<<1, 1>>] = Lin(1, 1)
    /\ result.sample.at[<<1, 2>>] = Lin(-3, 1)
    /\ result.sample.at[<<1, 4>>] = Lin(-1, 1)
    /\ result.sample.at[<<1, 7>>] = Lin(2, 1)
    /\ \A j \in 1..12 : Abs(result.sample.at[<<1, j>>].n) <= 6

\* out is v * 10**e for a positive v.
IsTimesPow10(out, v, e) ==
    /\ v.k = "pos"
    /\ out.k = "pos"
    /\ out.n * v.d = (v.n + e * v.d) * out.d

\* The targets built from an 8-column y_data: 6 columns, one per name of
\* PARAM_NAMES: R1, R2, R3 unscaled, Q1 and Q2 times 10**e, sigma unscaled;
\* the ideality columns 3 and 5 are gone.
SixColumns(y, y_data, e) ==
    /\ y.shape = <<y_data.shape[1], Len(PARAM_NAMES)>>
    /\ DOMAIN y.at = Indices(y.shape)
    /\ \A i \in 1..y_data.shape[1] :
          /\ y.at[<<i, 1>>] = y_data.at[<<i, 1>>]
          /\ y.at[<<i, 2>>] = y_data.at[<<i, 2>>]
          /\ y.at[<<i, 3>>] = y_data.at[<<i, 3>>]
          /\ IsTimesPow10(y.at[<<i, 4>>], y_data.at[<<i, 5>>], e)
          /\ IsTimesPow10(y.at[<<i, 5>>], y_data.at[<<i, 7>>], e)
          /\ y.at[<<i, 6>>] = y_data.at[<<i, 8>>]

EightColumns == PreprocessCalled /\ call.mat.y_data.shape[2] = 8

\* C18 as stated: for an 8-column y_data, load_and_preprocess_data strips
\* the ideality columns (3 and 5) and multiplies each Q column (4 and 6) by
\* 10^4 in one of the train/test modes and by 10^7 in the other, leaving
\* R1, R2, R3 and sigma unscaled: 6 columns aligned with PARAM_NAMES.
C18_DocumentedScaling ==
    EightColumns =>
        \/ SixColumns(result.y, call.mat.y_data, 4)
        \/ SixColumns(result.y, call.mat.y_data, 7)

\* C18, amended: the Q columns are multiplied by 10^7 in train mode and by
\* 10^6 in test mode (10^4 is the factor of the ideality columns in train
\* mode, which are then deleted); the rest as stated.
C18_TargetScaling ==
    EightColumns =>
        SixColumns(result.y, call.mat.y_data, IF call.is_test THEN 6 ELSE 7)

\* A test-mode load of a 2-sample circuit-4 file: Q1 leaves as Q1 * 10^6.
C18_Witness ==
    /\ EightColumns
    /\ call.is_test
    /\ call.mat.y_data.shape[1] = 2
    /\ result.status = "ok"
    /\ result.y.shape = <<2, 6>>
    /\ Within(call.mat.y_data.at[<<2, 5>>], DefaultQ)
    /\ Within(result.y.at[<<2, 4>>], <<Pos(1), Pos(3)>>)
    /\ result.y_train.shape[1] + result.y_test.shape[1] = 2

\* An empty batch: no spectrum, or spectra of no point.
EmptyShape(shape) == \E d \in 1..Len(shape) : d # 2 /\ shape[d] = 0

\* C19: on an empty batch (zero spectra or zero points) each feature encoder
\* fails with a shape error and produces no tensor.
C19_EmptyBatchRejected ==
    /\ (PreprocessCalled /\ EmptyShape(call.mat.x_data.shape)) => result.status # "ok"
    /\ (SpectrumCalled /\ EmptyShape(call.mat.x_data.shape)) => result.status # "ok"
    /\ (ArrangeCalled /\ (call.size_number = 0 \/ call.number_of_point = 0)) =>
          result.status # "ok"

LoaderCalled == call.fn \in {"load_model", "load_spectrum", "load_mat_spectrum"}
IsValueError(status) == status \in {"ValueError", "AxisError"}

\* The uploads the loaders are documented to reject.
Rejected ==
    \/ "corrupt" \in DOMAIN call.file_buffer
    \/ call.fn = "load_model" /\ "predict" \notin DOMAIN call.file_buffer.object
    \/ call.fn = "load_spectrum"
          /\ \/ call.file_buffer.nrows = 0
             \/ \A j \in 1..Len(call.file_buffer.columns) :
                   \E i \in 1..call.file_buffer.nrows :
                      call.file_buffer.columns[j][i].k = "str"
    \/ call.fn = "load_mat_spectrum"
          /\ \/ "x_data" \notin DOMAIN call.file_buffer
             \/ Len(call.file_buffer.x_data.shape) # 3
             \/ \E d \in 1..3 : call.file_buffer.x_data.shape[d] = 0

\* C21: every upload a loader is documented to reject -- an unreadable
\* file, a pickle without predict, a CSV without a row or a numeric column,
\* a .mat without x_data or with an x_data that is not a non-empty
\* 3-dimensional array -- ends in a ValueError (numpy's AxisError is one) and
\* no result.
C21_LoadersRaiseValueError ==
    (LoaderCalled /\ Rejected) => IsValueError(result.status)

ClassifyCalled == call.fn = "classify_risk"

\* The order of the risk levels.
Level(label) == CASE label = "Low" -> 1 [] label = "Moderate" -> 2 [] label = "Severe" -> 3

\* a <= b on the corrosion rates that are numbers (+inf included).
RateLe(a, b) ==
    \/ b.k = "inf"
    \/ a.k = "lin" /\ b.k = "lin" /\ a.n * b.d <= b.n * a.d

\* C22: every corrosion rate that is a number gets exactly one label: Low
\* iff rate < 0.1, Moderate iff 0.1 <= rate < 0.5, Severe iff rate >= 0.5;
\* a smaller rate never gets a higher label; colour, background and border
\* are those of RISK_THRESHOLDS for the label.
C22_RiskLevels ==
    (ClassifyCalled /\ call.corrosion_rate.k # "nan") =>
        LET rate == call.corrosion_rate
            label == result[1]
            tenth == rate.k = "lin" /\ 10 * rate.n < rate.d
            half == rate.k = "lin" /\ 2 * rate.n < rate.d
        IN  /\ Len(result) = 4
            /\ label \in {"Low", "Moderate", "Severe"}
            /\ label = "Low" <=> tenth
            /\ label = "Moderate" <=> (~tenth /\ half)
            /\ label = "Severe" <=> ~half
            /\ result[2] = RISK_THRESHOLDS[label].color
            /\ result[3] = RISK_THRESHOLDS[label].bg
            /\ result[4] = RISK_THRESHOLDS[label].border
            /\ \A other \in Rates :
                  (other.k # "nan" /\ RateLe(other, rate)) =>
                      Level(classify_risk(other)[1]) <= Level(label)

\* The rate 0.1 itself: Moderate, in amber.
C22_Witness ==
    /\ ClassifyCalled
    /\ EqVal(call.corrosion_rate, Lin(1, 10))
    /\ result = <<"Moderate", "#f59e0b", "rgba(245,158,11,0.12)", "rgba(245,158,11,0.3)">>

PredictCalled == call.fn = "predict_corrosion"

\* The candidates in the order they are tried, and those of the width the
\* model announces.
Candidates == <<"full", "spectrum", "env">>
Announced(i) ==
    /\ "n_features_in_" \in DOMAIN call.model
    /\ call.features[Candidates[i]].shape[2] = call.model.n_features_in_

\* What one use of the model on a candidate ends in: the error predict
\* raises, or the one of the conversion of its result, or the rate.
Use(key) ==
    LET accepted == call.features[key].shape[2] \in call.model.predict.accepts
        returns == call.model.predict.returns
    IN  CASE ~accepted -> call.model.predict.raises
          [] accepted /\ returns = <<>> -> "IndexError"
          [] accepted /\ returns # <<>> /\ returns[1] = Text -> "ValueError"
          [] OTHER -> "ok"

\* C25: with a candidate of the announced width predict is called once, on
\* the first such candidate, and the outcome is the one of that use;
\* otherwise predict is called on 'full' and, only if that call raises
\* ValueError, on 'spectrum', never on 'env'.
C25_FallbackOnPredictError ==
    PredictCalled =>
        IF \E i \in 1..3 : Announced(i)
        THEN \E i \in 1..3 :
                /\ Announced(i)
                /\ \A j \in 1..(i - 1) : ~Announced(j)
                /\ result.calls = <<Candidates[i]>>
                /\ result.status = Use(Candidates[i])
        ELSE IF call.features["full"].shape[2] \notin call.model.predict.accepts
                  /\ call.model.predict.raises = "ValueError"
             THEN result.calls = <<"full", "spectrum">>
             ELSE result.calls = <<"full">>

FeaturesCalled == call.fn = "build_feature_vector"

\* The number of slots of the one-hot that hold v.
Slots(onehot, v) == Cardinality({i \in 1..Len(onehot) : onehot[i] = v})

\* C26: build_feature_vector returns three rows (1 x n); 'full' is the
\* flattened spectrum, then the 5-slot one-hot of the material in the order
\* of MATERIAL_TYPES, then temperature, pressure, pH, sulfur, flow velocity
\* and service years; 'spectrum' is the first part and 'env' the other two,
\* so len(full) = len(spectrum) + 11 and len(env) = 11; the one-hot has
\* exactly one 1.0 for a material of MATERIAL_TYPES and only 0.0 for any
\* other string.
C26_FeatureRows ==
    FeaturesCalled =>
        LET n == call.spectrum.shape[1] * call.spectrum.shape[2]
            cols == call.spectrum.shape[2]
            full == result["full"]
            onehot == [i \in 1..5 |-> full.at[<<1, n + i>>]]
            known == \E i \in 1..5 : MATERIAL_TYPES[i] = call.material
        IN  /\ DOMAIN result = {"full", "spectrum", "env"}
            /\ full.shape = <<1, n + 11>>
            /\ result["spectrum"].shape = <<1, n>>
            /\ result["env"].shape = <<1, 11>>
            /\ \A key \in DOMAIN result : DOMAIN result[key].at = Indices(result[key].shape)
            /\ \A r \in 1..call.spectrum.shape[1] : \A c \in 1..cols :
                  /\ full.at[<<1, (r - 1) * cols + c>>] = call.spectrum.at[<<r, c>>]
                  /\ result["spectrum"].at[<<1, (r - 1) * cols + c>>] = call.spectrum.at[<<r, c>>]
            /\ \A i \in 1..5 :
                  onehot[i] = IF MATERIAL_TYPES[i] = call.material THEN Lin(1, 1) ELSE Lin(0, 1)
            /\ Slots(onehot, Lin(1, 1)) = (IF known THEN 1 ELSE 0)
            /\ Slots(onehot, Lin(0, 1)) = (IF known THEN 4 ELSE 5)
            /\ full.at[<<1, n + 6>>] = call.temperature
            /\ full.at[<<1, n + 7>>] = call.pressure
            /\ full.at[<<1, n + 8>>] = call.ph
            /\ full.at[<<1, n + 9>>] = call.sulfur
            /\ full.at[<<1, n + 10>>] = call.flow_velocity
            /\ full.at[<<1, n + 11>>] = call.service_years
            /\ \A j \in 1..11 : result["env"].at[<<1, j>>] = full.at[<<1, n + j>>]
            /\ Len(MATERIAL_TYPES) = 5
            /\ Len(ENV_FEATURES) = 6

\* A 2 x 2 spectrum of an SS304 at 60 degrees: 15 features, the fourth slot
\* of the one-hot set, the temperature after the one-hot.
C26_Witness ==
    /\ FeaturesCalled
    /\ call.spectrum.shape = <<2, 2>>
    /\ call.material = "SS304"
    /\ call.temperature = Lin(60, 1)
    /\ result["full"].shape = <<1, 15>>
    /\ result["full"].at[<<1, 3>>] = Lin(21, 1)
    /\ result["full"].at[<<1, 8>>] = Lin(1, 1)
    /\ result["full"].at[<<1, 10>>] = Lin(60, 1)
    /\ result["full"].at[<<1, 15>>] = Lin(12, 1)
    /\ result["env"].at[<<1, 4>>] = Lin(1, 1)

\* The columns of y_data that are kept when two are removed, counted from
\* 1: the columns 3 and 5 of the code are the 4th and the 6th.
Kept == <<1, 2, 3, 5, 7, 8>>

\* C23: the column count alone selects the schema.  A y_data of 7 or more
\* columns (circuit 2 has 7, circuits 4 and 5 have 8) loses its columns 3
\* and 5 and has its columns 4 and 6 scaled by a power of 10; a y_data of 6
\* or fewer columns (circuit 1 has 4, circuit 3 has 5) is returned with all
\* its columns and values, in train and in test mode.
C23_SchemaByColumnCount ==
    PreprocessCalled =>
        LET y_data == call.mat.y_data
            n == y_data.shape[1]
            cols == y_data.shape[2]
            e == IF call.is_test THEN TestQScale ELSE TrainQScale
        IN  IF cols >= 7
            THEN /\ result.y.shape = <<n, cols - 2>>
                 /\ DOMAIN result.y.at = Indices(result.y.shape)
                 /\ \A i \in 1..n : \A j \in 1..(cols - 2) :
                       IF Kept[j] \in {5, 7}
                       THEN IsTimesPow10(result.y.at[<<i, j>>], y_data.at[<<i, Kept[j]>>], e)
                       ELSE result.y.at[<<i, j>>] = y_data.at[<<i, Kept[j]>>]
            ELSE result.y = y_data

\* C24: after the normalisation of y, y has two dimensions and one row per
\* sample of x_data, whatever the stored shape of y_data: one sample
\* (1 x P), one parameter (n x 1, n > 1).
C24_RowsAreSamples ==
    (PreprocessCalled /\ call.mat.y_data.shape[1] = call.mat.x_data.shape[1]) =>
        /\ Len(result.y.shape) = 2
        /\ result.y.shape[1] = call.mat.x_data.shape[1]

\* Where an impedance lies in the complex plane, as far as its composition
\* tells: "pos" (real part > 0), "cap" (real part >= 0, imaginary part < 0),
\* "adm" (real part >= 0, imaginary part > 0), or "any".  A positive
\* resistance is "pos"; 1 / (Q (jw)^a) with Q, w > 0 and 0 < a <= 1 has the
\* argument -a pi/2 and is "cap"; sigma sqrt(2) / sqrt(jw) with sigma, w > 0
\* has the argument -pi/4 and is "pos"; 1 / z has the real part
\* Re z / |z|^2 and the opposite imaginary sign.
RECURSIVE HalfPlane(_)
HalfPlane(z) ==
    IF ~IsTerm(z) THEN (IF z.k = "pos" THEN "pos" ELSE "any")
    ELSE CASE z.op = "Z_Q" ->
                 IF /\ SignOf(z.args[1]) = "pos"
                    /\ SignOf(z.args[3]) = "pos"
                    /\ z.args[2].k = "lin"
                    /\ 0 < z.args[2].n
                    /\ z.args[2].n <= z.args[2].d
                 THEN "cap" ELSE "any"
           [] z.op = "Z_W" ->
                 IF SignOf(z.args[1]) = "pos" /\ SignOf(z.args[2]) = "pos"
                 THEN "pos" ELSE "any"
           [] z.op = "+" ->
                 LET a == HalfPlane(z.args[1])
                     b == HalfPlane(z.args[2])
                 IN  IF "any" \in {a, b} THEN "any"
                     ELSE IF "pos" \in {a, b} THEN "pos"
                     ELSE IF a = b THEN a ELSE "any"
           [] z.op = "1/" ->
                 LET a == HalfPlane(z.args[1])
                 IN  CASE a = "pos" -> "pos"
                       [] a = "cap" -> "adm"
                       [] a = "adm" -> "cap"
                       [] OTHER -> "any"
           [] OTHER -> "any"

\* z is r1 plus impedances of non-negative real part.
RECURSIVE SeriesWith(_, _)
SeriesWith(z, r1) ==
    IF ~IsTerm(z) THEN z = r1
    ELSE /\ z.op = "+"
         /\ SeriesWith(z.args[1], r1)
         /\ HalfPlane(z.args[2]) # "any"

PositiveRange(range) == range[1].k = "pos" /\ range[2].k = "pos"
UnitRange(range) ==
    \A b \in 1..2 : range[b].k = "lin" /\ 0 < range[b].n /\ range[b].n <= range[b].d

\* C27: for positive resistance, Q and sigma ranges and an alpha_range
\* within (0, 1], every entry of row i of Zsum is the R1 of row i, which is
\* positive, plus impedances of non-negative real part: its real part is at
\* least R1 > 0.  And for a complex number of positive real part the
\* quotient Im / Re of arrange_data divides by a non-zero number and
\* arctan(Im / Re) is the angle arctan2(Im, Re).
C27_RealPartAtLeastR1 ==
    /\ (/\ SimReturned
        /\ PositiveRange(call.resistance_range)
        /\ PositiveRange(call.q_range)
        /\ PositiveRange(call.sigma_range)
        /\ UnitRange(call.alpha_range)) =>
          /\ result.status = "ok"
          /\ \A i \in 1..call.size_number : \A k \in 1..call.number_of_point :
                /\ result.Zparam[i][1].k = "pos"
                /\ SeriesWith(result.Zsum[i][k], result.Zparam[i][1])
                /\ HalfPlane(result.Zsum[i][k]) = "pos"
    /\ \A j \in 1..Len(ComplexGrid) :
          ComplexGrid[j].re > 0 =>
              LET y == imag(ComplexGrid[j])
                  x == real(ComplexGrid[j])
              IN  /\ divide(y, x).k = "fin"
                  /\ degrees(arctan(divide(y, x))) = degrees(arctan2(y, x))

\* Two spectra of circuit 5 from the default ranges: R1 in series with a
\* parallel block that lies in the right half plane.
C27_Witness ==
    /\ SimReturned
    /\ call.circuit_id = 5
    /\ call.size_number = 2
    /\ call.resistance_range = DefaultResistance
    /\ call.alpha_range = DefaultAlpha
    /\ result.status = "ok"
    /\ Within(result.Zparam[2][1], DefaultResistance)
    /\ result.Zsum[2][1].op = "+"
    /\ result.Zsum[2][1].args[1] = result.Zparam[2][1]
    /\ HalfPlane(result.Zsum[2][1].args[2]) = "pos"
    /\ HalfPlane(result.Zsum[2][1].args[2].args[1].args[2]) = "adm"

Stored_sim_result == "sim_result" \in DOMAIN session_state

\* The stored arrays have the shapes of the stored numbers.
BundleShapes(res) ==
    /\ res.Zsum.shape = <<res.size_number, res.number_of_point>>
    /\ DOMAIN res.Zsum.at = Indices(res.Zsum.shape)
    /\ res.Zparam.shape =
          <<res.size_number, Len(CIRCUIT_INFO[res.circuit_id]["params"])>>
    /\ DOMAIN res.Zparam.at = Indices(res.Zparam.shape)
    /\ Len(res.frequency) = res.number_of_point
    /\ Len(res.angular_frequency) = res.number_of_point
    /\ \A k \in 1..res.number_of_point :
          res.angular_frequency[k] = TwoPiTimes(res.frequency[k])

\* The spectra and the parameters of a stored result are the ones one call
\* of sim_circuit returned, and the generator is where that call left it.
BundleOf(res, sim, controls, after) ==
    /\ res.Zsum = array(sim.Zsum, controls.number_of_point)
    /\ res.Zparam = array(sim.Zparam, Len(CIRCUIT_INFO[controls.circuit_id]["params"]))
    /\ after = sim.rng.x

\* A run of the simulator page that is not a press of Generate leaves
\* st.session_state as it is, and what the page shows with it when the page
\* stays; a press stores the result of one simulation with the controls of
\* that run, all seven entries at once: the grid of that run, and the
\* spectra and the parameters of one call of sim_circuit, the one of the
\* run or the one of the press that ended an unfinished run.
BundleSteps ==
    /\ sidebar' # sidebar => session_state' = session_state
    /\ page' # page => session_state' = session_state
    /\ (sidebar' # sidebar /\ page' = page) => screen' = screen
    /\ session_state' # session_state =>
          /\ sidebar' = sidebar
          /\ "sim_result" \in DOMAIN session_state'
          /\ session_state'["sim_result"].circuit_id = sidebar.circuit_id
          /\ session_state'["sim_result"].size_number = sidebar.size_number
          /\ session_state'["sim_result"].number_of_point = sidebar.number_of_point
          /\ session_state'["sim_result"].frequency
                = F_range(sidebar.freq_min, sidebar.freq_max,
                          sidebar.number_of_point).frequency_Hz
          /\ \E sim \in {Simulate[sidebar, rng]} :
                \/ BundleOf(session_state'["sim_result"], sim, sidebar, rng')
                \/ \E again \in {Simulate[sidebar, sim.rng.x]} :
                      BundleOf(session_state'["sim_result"], again, sidebar, rng')

\* C28: whenever st.session_state holds sim_result, its Zsum has the shape
\* (size_number, number_of_point), its Zparam has size_number rows and one
\* column per name of CIRCUIT_INFO[circuit_id]['params'], its frequency has
\* number_of_point entries, all of one press of Generate; moving a control
\* without pressing Generate leaves the stored result unchanged, and a
\* press replaces the whole bundle.
C28_StoredResult ==
    /\ [](Stored_sim_result => BundleShapes(session_state["sim_result"]))
    /\ [][BundleSteps]_vars

\* A result of 2 spectra of circuit 4 is on the screen while the controls
\* have been moved back to circuit 1 and to another lowest frequency, so
\* that the stored grid is no longer the grid of the controls.
C28_Witness ==
    /\ Stored_sim_result
    /\ page = Pages[1]
    /\ session_state["sim_result"].circuit_id = 4
    /\ session_state["sim_result"].size_number = 2
    /\ session_state["sim_result"].Zparam.shape = <<2, 8>>
    /\ session_state["sim_result"].Zsum.shape[1] = 2
    /\ sidebar.circuit_id = 1
    /\ sidebar.freq_min = Pos(-4)
    /\ session_state["sim_result"].frequency
          # F_range(sidebar.freq_min, sidebar.freq_max, sidebar.number_of_point).frequency_Hz
    /\ screen.elements = {"sim_result"}

\* C30: whichever of the four pages the sidebar selects, its branch runs
\* without ImportError and without NameError: every name it imports from
\* corrosion_predictor is defined there and every name it evaluates has
\* been imported in that branch.
C30_PagesRender ==
    \A p \in 1..4 :
        page = Pages[p] =>
            /\ screen.exception = "none"
            /\ \A i \in PageImports[p] : i.name \in Modules[i.module]
            /\ PageUses[p] \subseteq {i.alias : i \in PageImports[p]}

\* The last run of the script was a press of Start Training.
TrainingRan == page = Pages[2] /\ screen # Blank

\* C29: a press of Start Training ends with the trained model offered for
\* download or with an error message (also when no file is uploaded),
\* never with an uncaught exception, and every temporary file the action
\* created (the .mat copy, the .pkl model) has been deleted by then.
C29_TrainingCleansUp ==
    TrainingRan =>
        /\ screen.exception = "none"
        /\ ("download_button" \in screen.elements) # ("error" \in screen.elements)
        /\ tmp_files = {}
====
